---- MODULE Spec2Model ----
(***************************************************************************)
(* Fraud-risk analysis of a health-insurance claim                         *)
(* (backend/services/fraud_detection_model.py, backend/services/           *)
(* ai_service.py).                                                         *)
(*                                                                         *)
(* Units.  Percentages (legit_percentage, fraud_score, the rule-based      *)
(* score) are floats in the code; here they are integers counting tenths   *)
(* of a percent, Pct(50) = 500 = 50.0, so that 69.9 and 39.9 exist.        *)
(* Probabilities returned by the classifier are in thousandths             *)
(* (1000 = 1.0).  date_consistency, amount_consistency and confidence are  *)
(* in hundredths (100 = 1.0, 75 = 0.75).                                   *)
(***************************************************************************)
EXTENDS Integers, Sequences, FiniteSets, Bags

VARIABLES
    model_loaded,        \* FraudDetectionModel.model is not None
    enabled,             \* AIService.enabled (GEMINI_API_KEY is set)
    documents,           \* the claim's Document rows handed to analyze_fraud_risk
    questions,           \* len(questions) handed to analyze_fraud_risk
    pc,                  \* position of the analyze_fraud_risk coroutine
    model_outcome,       \* what the loaded scaler/classifier did in this call
    documents_features,  \* local list built by the processing loop
    legit_percentage,    \* local, tenths of a percent
    fraud_score,         \* local, tenths of a percent
    risk_level,          \* local
    strategy,            \* which branch of predict_legit_percentage returned
    reply,               \* what requests.post gave _generate_fraud_analysis
    analysis,            \* the dict built at ai_service.py:121
    response,            \* the FraudAnalysisResponse returned to the caller
    claim,               \* the claim row: fraud_score, fraud_risk_level
    aggregation,         \* whether the scorer called _aggregate_features, and on what
    coroutines,          \* analyses of several claims on one event loop, by claim
    db,                  \* the MongoDB collections: policies, claims, documents
    now,                 \* the wall clock, in days since the backend started
    uploads,             \* bag of the upload_document calls waiting at `await file.read()`
    call,                \* arguments of one call of a function checked on its own
    result               \* what that call returned

vars == <<model_loaded, enabled, documents, questions, pc, model_outcome,
          documents_features, legit_percentage, fraud_score, risk_level,
          strategy, reply, analysis, response, claim, aggregation, coroutines,
          db, now, uploads, call, result>>

\* ------------------------------------------------------------------ bounds

\* Longest document list of a claim.
MaxDocs == 2

\* Largest number of questions already asked on a claim.
MaxQuestions == 3

\* ------------------------------------------------------------------- units

Pct(n) == n * 10

NoScore == 0 - 1

Min(a, b) == IF a < b THEN a ELSE b

Max(a, b) == IF a > b THEN a ELSE b

\* ------------------------------------------------ document feature records

\* extract_features of an empty text (a document whose extraction gave "").
EmptyTextFeatures ==
    [document_type |-> "other", text_length |-> 0, word_count |-> 0,
     has_dates |-> FALSE, has_amounts |-> FALSE, has_phone_numbers |-> FALSE,
     has_email |-> FALSE, has_medical_terms |-> 0, has_prescription_terms |-> 0,
     has_invoice_terms |-> 0, date_consistency |-> 100, amount_consistency |-> 100,
     has_signature |-> FALSE, has_stamp |-> FALSE, has_doctor_name |-> FALSE,
     has_hospital_name |-> FALSE, has_policy_number |-> FALSE,
     has_claim_number |-> FALSE]

\* A plain readable document: some text, one date, nothing else recognised.
PlainFeatures ==
    [EmptyTextFeatures EXCEPT !.text_length = 120, !.word_count = 20,
                              !.has_dates = TRUE]

\* Every positive signal present; several dates and amounts.
RichFeatures ==
    [PlainFeatures EXCEPT !.document_type = "medical_report",
                          !.text_length = 600, !.word_count = 100,
                          !.has_amounts = TRUE, !.has_medical_terms = 5,
                          !.date_consistency = 80, !.amount_consistency = 80,
                          !.has_signature = TRUE, !.has_stamp = TRUE,
                          !.has_doctor_name = TRUE, !.has_hospital_name = TRUE,
                          !.has_policy_number = TRUE, !.has_claim_number = TRUE]

\* Medical report with signature, stamp, doctor, hospital and a long text.
SignedReportFeatures ==
    [PlainFeatures EXCEPT !.document_type = "medical_report",
                          !.text_length = 600, !.word_count = 100,
                          !.has_medical_terms = 2,
                          !.has_signature = TRUE, !.has_stamp = TRUE,
                          !.has_doctor_name = TRUE, !.has_hospital_name = TRUE]

\* Prescription with the four +5 presence signals and a medium text.
SignedPrescriptionFeatures ==
    [PlainFeatures EXCEPT !.document_type = "prescription",
                          !.has_amounts = TRUE, !.has_prescription_terms = 3,
                          !.has_signature = TRUE, !.has_stamp = TRUE,
                          !.has_doctor_name = TRUE, !.has_hospital_name = TRUE]

\* The same prescription without any date.
UndatedPrescriptionFeatures ==
    [SignedPrescriptionFeatures EXCEPT !.has_dates = FALSE]

\* Invoice with a very short text, no date, no amount and an amount
\* consistency below one half.
SuspectInvoiceFeatures ==
    [EmptyTextFeatures EXCEPT !.document_type = "invoice",
                              !.text_length = 30, !.word_count = 5,
                              !.has_invoice_terms = 1, !.amount_consistency = 40]

\* Lab result whose two consistency scores are below one half.
InconsistentFeatures ==
    [PlainFeatures EXCEPT !.document_type = "lab_result", !.has_amounts = TRUE,
                          !.date_consistency = 40, !.amount_consistency = 40]

FeaturePool ==
    {EmptyTextFeatures, PlainFeatures, RichFeatures, SignedReportFeatures,
     SignedPrescriptionFeatures, UndatedPrescriptionFeatures,
     SuspectInvoiceFeatures, InconsistentFeatures}

\* A Document row as analyze_fraud_risk sees it: whether its stored file
\* exists, whether process_document raises on it, and the feature record
\* process_document returns otherwise.
DocumentInputs ==
    {[file |-> "ok", features |-> f] : f \in FeaturePool}
    \cup {[file |-> "missing", features |-> EmptyTextFeatures],
          [file |-> "raises", features |-> EmptyTextFeatures]}

SeqsUpTo(S, n) == UNION {[1..k -> S] : k \in 0..n}

\* --------------------------------------------- FraudDetectionModel scoring

\* Faulty variant: a medical report earns the +5 of the medical terms whatever
\* their number.
PositiveIndicatorsReportBonus(score, d) ==
    LET s1 == IF d.has_signature THEN score + Pct(5) ELSE score
        s2 == IF d.has_stamp THEN s1 + Pct(5) ELSE s1
        s3 == IF d.has_doctor_name THEN s2 + Pct(5) ELSE s2
        s4 == IF d.has_hospital_name THEN s3 + Pct(5) ELSE s3
        s5 == IF d.has_policy_number THEN s4 + Pct(3) ELSE s4
        s6 == IF d.has_claim_number THEN s5 + Pct(3) ELSE s5
        s7 == IF d.has_medical_terms > 3 \/ d.document_type = "medical_report"
              THEN s6 + Pct(5) ELSE s6
        s8 == IF d.text_length > 500 THEN s7 + Pct(3) ELSE s7
    IN  s8

\* First loop of _rule_based_scoring, one document.
PositiveIndicators(score, d) ==
    LET s1 == IF d.has_signature THEN score + Pct(5) ELSE score
        s2 == IF d.has_stamp THEN s1 + Pct(5) ELSE s1
        s3 == IF d.has_doctor_name THEN s2 + Pct(5) ELSE s2
        s4 == IF d.has_hospital_name THEN s3 + Pct(5) ELSE s3
        s5 == IF d.has_policy_number THEN s4 + Pct(3) ELSE s4
        s6 == IF d.has_claim_number THEN s5 + Pct(3) ELSE s5
        s7 == IF d.has_medical_terms > 3 THEN s6 + Pct(5) ELSE s6
        s8 == IF d.text_length > 500 THEN s7 + Pct(3) ELSE s7
    IN  s8

\* Second loop of _rule_based_scoring, one document.
NegativeIndicators(score, d) ==
    LET s1 == IF d.text_length < 50 THEN score - Pct(10) ELSE score
        s2 == IF ~d.has_dates THEN s1 - Pct(5) ELSE s1
        s3 == IF ~d.has_amounts /\ d.document_type = "invoice"
              THEN s2 - Pct(10) ELSE s2
        s4 == IF d.date_consistency < 50 THEN s3 - Pct(10) ELSE s3
        s5 == IF d.amount_consistency < 50 THEN s4 - Pct(10) ELSE s4
    IN  s5

RECURSIVE PositiveLoop(_, _)
PositiveLoop(score, docs) ==
    IF docs = <<>> THEN score
    ELSE PositiveLoop(PositiveIndicators(score, Head(docs)), Tail(docs))

RECURSIVE NegativeLoop(_, _)
NegativeLoop(score, docs) ==
    IF docs = <<>> THEN score
    ELSE NegativeLoop(NegativeIndicators(score, Head(docs)), Tail(docs))

\* max(0.0, min(100.0, x))
Clamp(x) == Max(Pct(0), Min(Pct(100), x))

\* Faulty variant: each document's own score is averaged into the running
\* score instead of its deltas being added to it.
RECURSIVE AveragingLoop(_, _)
AveragingLoop(score, docs) ==
    IF docs = <<>> THEN score
    ELSE LET d == Head(docs)
             own == NegativeIndicators(PositiveIndicators(Pct(50), d), d)
         IN  AveragingLoop((score + own) \div 2, Tail(docs))

rule_based_scoring_averaged(docs) ==
    IF docs = <<>> THEN Pct(50) ELSE Clamp(AveragingLoop(Pct(50), docs))

\* Faulty variant: the running total is clamped after each loop instead of once.
rule_based_scoring_clamp_early(docs) ==
    IF docs = <<>> THEN Pct(50)
    ELSE Clamp(NegativeLoop(Clamp(PositiveLoop(Pct(50), docs)), docs))

\* Faulty variant: the final normalisation to [0,100] is missing.
rule_based_scoring_no_clamp(docs) ==
    IF docs = <<>> THEN Pct(50)
    ELSE NegativeLoop(PositiveLoop(Pct(50), docs), docs)

\* FraudDetectionModel._rule_based_scoring
rule_based_scoring(docs) ==
    IF docs = <<>> THEN Pct(50)
    ELSE Clamp(NegativeLoop(PositiveLoop(Pct(50), docs), docs))

\* What the fitted scaler and the classifier do in one call of the model path
\* (fraud_detection_model.py:78-101).  The classifier is an artifact loaded
\* from disk, so its output is an input of the analysis: a failure inside the
\* try block (encoding with the loaded feature_names, scaler.transform,
\* predict_proba / predict), the class probabilities of predict_proba, or the
\* class of predict when the model has no predict_proba.
NotCalled == [kind |-> "not_called", at |-> "", probabilities |-> <<>>, prediction |-> 0]

ModelOutcomes ==
    {[kind |-> "fail", at |-> a, probabilities |-> <<>>, prediction |-> 0] :
        a \in {"vector", "scale", "predict"}}
    \cup {[kind |-> "proba", at |-> "", probabilities |-> <<1000 - p, p>>, prediction |-> 0] :
            p \in {0, 399, 400, 699, 700, 1000}}
    \cup {[kind |-> "proba", at |-> "", probabilities |-> <<1000>>, prediction |-> 0]}
    \cup {[kind |-> "predict", at |-> "", probabilities |-> <<>>, prediction |-> c] :
            c \in {0, 1}}

\* legit_probability of fraud_detection_model.py:89-96, in thousandths.
\* probabilities[1] of the code is the second entry, probabilities[0] the first.
legit_probability(outcome) ==
    IF outcome.kind = "proba"
    THEN IF Len(outcome.probabilities) > 1
         THEN outcome.probabilities[2]
         ELSE outcome.probabilities[1]
    ELSE IF outcome.prediction = 1 THEN 1000 ELSE 0

\* legit_percentage = legit_probability * 100 (thousandths to tenths of a percent)
ProbabilityToPercentage(p) == (p * 100 * 10) \div 1000

\* ---------------------------------------------------- _aggregate_features

\* An exact fraction num/den of hundredths: the running consistency average
\* halves at every document, so its denominator is a power of two.
Fraction(num, den) == [num |-> num, den |-> den]

\* The accumulator _aggregate_features starts from.
NeutralAccumulator ==
    [document_type |-> "mixed", text_length |-> 0, word_count |-> 0,
     has_dates |-> FALSE, has_amounts |-> FALSE, has_phone_numbers |-> FALSE,
     has_email |-> FALSE, has_medical_terms |-> 0, has_prescription_terms |-> 0,
     has_invoice_terms |-> 0,
     date_consistency |-> Fraction(100, 1), amount_consistency |-> Fraction(100, 1),
     has_signature |-> FALSE, has_stamp |-> FALSE, has_doctor_name |-> FALSE,
     has_hospital_name |-> FALSE, has_policy_number |-> FALSE,
     has_claim_number |-> FALSE]

\* Faulty variant: the document's value is added and the sum is not halved.
PairwiseAverageNotHalved(acc, value) ==
    Fraction(acc.num + value * acc.den, acc.den)

\* (accumulator + value) / 2
PairwiseAverage(acc, value) ==
    Fraction(acc.num + value * acc.den, 2 * acc.den)

\* Faulty variant: each boolean is overwritten by the document's value.
AggregateDocumentLastWins(acc, d) ==
    [document_type |-> acc.document_type,
     text_length |-> acc.text_length + d.text_length,
     word_count |-> acc.word_count + d.word_count,
     has_medical_terms |-> acc.has_medical_terms + d.has_medical_terms,
     has_prescription_terms |-> acc.has_prescription_terms + d.has_prescription_terms,
     has_invoice_terms |-> acc.has_invoice_terms + d.has_invoice_terms,
     has_dates |-> d.has_dates,
     has_amounts |-> d.has_amounts,
     has_phone_numbers |-> d.has_phone_numbers,
     has_email |-> d.has_email,
     has_signature |-> d.has_signature,
     has_stamp |-> d.has_stamp,
     has_doctor_name |-> d.has_doctor_name,
     has_hospital_name |-> d.has_hospital_name,
     has_policy_number |-> d.has_policy_number,
     has_claim_number |-> d.has_claim_number,
     date_consistency |-> PairwiseAverage(acc.date_consistency, d.date_consistency),
     amount_consistency |-> PairwiseAverage(acc.amount_consistency, d.amount_consistency)]

\* One iteration of the loop of _aggregate_features.
AggregateDocument(acc, d) ==
    [document_type |-> acc.document_type,
     text_length |-> acc.text_length + d.text_length,
     word_count |-> acc.word_count + d.word_count,
     has_medical_terms |-> acc.has_medical_terms + d.has_medical_terms,
     has_prescription_terms |-> acc.has_prescription_terms + d.has_prescription_terms,
     has_invoice_terms |-> acc.has_invoice_terms + d.has_invoice_terms,
     has_dates |-> acc.has_dates \/ d.has_dates,
     has_amounts |-> acc.has_amounts \/ d.has_amounts,
     has_phone_numbers |-> acc.has_phone_numbers \/ d.has_phone_numbers,
     has_email |-> acc.has_email \/ d.has_email,
     has_signature |-> acc.has_signature \/ d.has_signature,
     has_stamp |-> acc.has_stamp \/ d.has_stamp,
     has_doctor_name |-> acc.has_doctor_name \/ d.has_doctor_name,
     has_hospital_name |-> acc.has_hospital_name \/ d.has_hospital_name,
     has_policy_number |-> acc.has_policy_number \/ d.has_policy_number,
     has_claim_number |-> acc.has_claim_number \/ d.has_claim_number,
     date_consistency |-> PairwiseAverage(acc.date_consistency, d.date_consistency),
     amount_consistency |-> PairwiseAverage(acc.amount_consistency, d.amount_consistency)]

RECURSIVE AggregateLoop(_, _)
AggregateLoop(acc, docs) ==
    IF docs = <<>> THEN acc
    ELSE AggregateLoop(AggregateDocument(acc, Head(docs)), Tail(docs))

\* Faulty variant: the aggregate takes the document type of the first document.
aggregate_features_first_type(docs) ==
    IF docs = <<>> THEN NeutralAccumulator
    ELSE [AggregateLoop(NeutralAccumulator, docs)
            EXCEPT !.document_type = Head(docs).document_type]

\* FraudDetectionModel._aggregate_features
aggregate_features(docs) == AggregateLoop(NeutralAccumulator, docs)

\* ------------------------------------------------ _extract_features_vector

\* self.feature_names, in the order of the constructor.
FeatureNames ==
    <<"text_length", "word_count", "has_dates", "has_amounts",
      "has_phone_numbers", "has_email", "has_medical_terms",
      "has_prescription_terms", "has_invoice_terms", "date_consistency",
      "amount_consistency", "has_signature", "has_stamp", "has_doctor_name",
      "has_hospital_name", "has_policy_number", "has_claim_number">>

\* The fields whose values are Python booleans.
BooleanFeatureNames ==
    {"has_dates", "has_amounts", "has_phone_numbers", "has_email",
     "has_signature", "has_stamp", "has_doctor_name", "has_hospital_name",
     "has_policy_number", "has_claim_number"}

\* The fields whose aggregate is a fraction.
ConsistencyFeatureNames == {"date_consistency", "amount_consistency"}

\* self.document_type_encoding.get(doc_type, 0.5), in hundredths.
DocumentTypeEncoding(doc_type) ==
    CASE doc_type = "medical_report" -> Fraction(100, 1)
      [] doc_type = "prescription" -> Fraction(80, 1)
      [] doc_type = "invoice" -> Fraction(60, 1)
      [] doc_type = "lab_result" -> Fraction(70, 1)
      [] doc_type = "other" -> Fraction(50, 1)
      [] OTHER -> Fraction(50, 1)

\* One component of the vector, in hundredths: 1.0 or 0.0 for a boolean,
\* float(value) otherwise.
FeatureValue(features, name) ==
    IF name \in BooleanFeatureNames
    THEN (IF features[name] THEN Fraction(100, 1) ELSE Fraction(0, 1))
    ELSE IF name \in ConsistencyFeatureNames THEN features[name]
    ELSE Fraction(100 * features[name], 1)

\* Faulty variant: the document-type ordinal is left out.
extract_features_vector_without_type(features) ==
    [k \in 1..Len(FeatureNames) |-> FeatureValue(features, FeatureNames[k])]

\* FraudDetectionModel._extract_features_vector, on an aggregate.
extract_features_vector(features) ==
    <<DocumentTypeEncoding(features.document_type)>>
    \o [k \in 1..Len(FeatureNames) |-> FeatureValue(features, FeatureNames[k])]

\* predict_legit_percentage did not reach _aggregate_features.
NotAggregated == [invoked |-> FALSE, docs |-> <<>>, features |-> NeutralAccumulator]

\* The call of _aggregate_features at the head of the try block.
Aggregated(docs) ==
    [invoked |-> TRUE, docs |-> docs, features |-> aggregate_features(docs)]

\* Faulty variant: the except branch returns the neutral 50.0 instead of the
\* rule-based score.
predict_legit_percentage_neutral_on_error(docs, loaded, outcome) ==
    IF docs = <<>>
    THEN [raised |-> FALSE, value |-> Pct(50), strategy |-> "none",
          aggregation |-> NotAggregated]
    ELSE IF ~loaded
    THEN [raised |-> FALSE, value |-> rule_based_scoring(docs), strategy |-> "rules",
          aggregation |-> NotAggregated]
    ELSE IF outcome.kind = "fail"
    THEN [raised |-> FALSE, value |-> Pct(50), strategy |-> "fallback",
          aggregation |-> Aggregated(docs)]
    ELSE [raised |-> FALSE,
          value |-> Clamp(ProbabilityToPercentage(legit_probability(outcome))),
          strategy |-> "model", aggregation |-> Aggregated(docs)]

\* Faulty variant: the empty-list test is missing, so an empty list reaches the
\* model or the rule-based strategy.
predict_legit_percentage_no_empty_test(docs, loaded, outcome) ==
    IF ~loaded
    THEN [raised |-> FALSE, value |-> rule_based_scoring(docs), strategy |-> "rules",
          aggregation |-> NotAggregated]
    ELSE IF outcome.kind = "fail"
    THEN [raised |-> FALSE, value |-> rule_based_scoring(docs), strategy |-> "fallback",
          aggregation |-> Aggregated(docs)]
    ELSE [raised |-> FALSE,
          value |-> Clamp(ProbabilityToPercentage(legit_probability(outcome))),
          strategy |-> "model", aggregation |-> Aggregated(docs)]

\* Faulty variant: the features are aggregated on entry, before the list is
\* tested for emptiness and before the model is looked for.
predict_legit_percentage_aggregates_first(docs, loaded, outcome) ==
    IF docs = <<>>
    THEN [raised |-> FALSE, value |-> Pct(50), strategy |-> "none",
          aggregation |-> Aggregated(docs)]
    ELSE IF ~loaded
    THEN [raised |-> FALSE, value |-> rule_based_scoring(docs), strategy |-> "rules",
          aggregation |-> Aggregated(docs)]
    ELSE IF outcome.kind = "fail"
    THEN [raised |-> FALSE, value |-> rule_based_scoring(docs), strategy |-> "fallback",
          aggregation |-> Aggregated(docs)]
    ELSE [raised |-> FALSE,
          value |-> Clamp(ProbabilityToPercentage(legit_probability(outcome))),
          strategy |-> "model", aggregation |-> Aggregated(docs)]

\* FraudDetectionModel.predict_legit_percentage.  value is the float the
\* method returns; strategy records the branch that returned it ("none": the
\* empty-list return, "rules": no model, "model": the try block, "fallback":
\* the except branch); aggregation records the call of _aggregate_features
\* the try block starts with; raised tells whether an exception left the
\* method, which no branch of the code does.
predict_legit_percentage(docs, loaded, outcome) ==
    IF docs = <<>>
    THEN [raised |-> FALSE, value |-> Pct(50), strategy |-> "none",
          aggregation |-> NotAggregated]
    ELSE IF ~loaded
    THEN [raised |-> FALSE, value |-> rule_based_scoring(docs), strategy |-> "rules",
          aggregation |-> NotAggregated]
    ELSE IF outcome.kind = "fail"
    THEN [raised |-> FALSE, value |-> rule_based_scoring(docs), strategy |-> "fallback",
          aggregation |-> Aggregated(docs)]
    ELSE [raised |-> FALSE,
          value |-> Clamp(ProbabilityToPercentage(legit_probability(outcome))),
          strategy |-> "model", aggregation |-> Aggregated(docs)]

\* ------------------------------------------------------------- AIService

\* Faulty variant: the comparisons are strict, so 70.0 is medium and 40.0 is high.
RiskLevelStrict(legit) ==
    IF legit > Pct(70) THEN "low"
    ELSE IF legit > Pct(40) THEN "medium"
    ELSE "high"

\* Faulty variant: the thresholds of the fraud score (30 and 60) are applied to the
\* legit percentage.
RiskLevelFraudThresholds(legit) ==
    IF legit >= Pct(60) THEN "low"
    ELSE IF legit >= Pct(30) THEN "medium"
    ELSE "high"

\* Risk level of analyze_fraud_risk (ai_service.py:99-104).
RiskLevel(legit) ==
    IF legit >= Pct(70) THEN "low"
    ELSE IF legit >= Pct(40) THEN "medium"
    ELSE "high"

\* The processing loop of analyze_fraud_risk (ai_service.py:81-92): a document
\* whose file is missing, or whose processing raises, adds nothing.
RECURSIVE ProcessDocuments(_)
ProcessDocuments(docs) ==
    IF docs = <<>> THEN <<>>
    ELSE IF Head(docs).file = "ok"
         THEN <<Head(docs).features>> \o ProcessDocuments(Tail(docs))
         ELSE ProcessDocuments(Tail(docs))

\* Indicators one document adds in _extract_indicators_from_features.
DocumentIndicators(d) ==
    (IF d.text_length < 50 THEN <<"Document contains very little text">> ELSE <<>>)
    \o (IF ~d.has_dates THEN <<"Missing dates in documents">> ELSE <<>>)
    \o (IF ~d.has_signature /\ d.document_type \in {"medical_report", "prescription"}
        THEN <<"Missing signature on medical document">> ELSE <<>>)
    \o (IF ~d.has_doctor_name /\ d.document_type = "medical_report"
        THEN <<"Missing doctor information">> ELSE <<>>)
    \o (IF d.date_consistency < 50
        THEN <<"Inconsistent dates across documents">> ELSE <<>>)
    \o (IF d.amount_consistency < 50
        THEN <<"Inconsistent amounts across documents">> ELSE <<>>)

RECURSIVE IndicatorsLoop(_)
IndicatorsLoop(docs) ==
    IF docs = <<>> THEN <<>>
    ELSE DocumentIndicators(Head(docs)) \o IndicatorsLoop(Tail(docs))

\* AIService._extract_indicators_from_features
extract_indicators_from_features(docs, legit) ==
    IF docs = <<>> THEN <<"No documents uploaded for verification">>
    ELSE LET found == IndicatorsLoop(docs)
                      \o (IF legit < Pct(40)
                          THEN <<"Low legitimacy score based on document analysis">>
                          ELSE <<>>)
         IN  IF found # <<>> THEN found
             ELSE <<"No major fraud indicators detected">>

\* 'invoice' in document_type, for the document types of the model.
ContainsInvoice(t) == t \in {"invoice", "pharmacy_invoice"}

\* Faulty variant: the tiers are cut at "at most 40" and "at most 70".
generate_recommendations_inclusive_tiers(legit, docs) ==
    LET tier == IF legit <= Pct(40)
                THEN <<"Conduct detailed manual review",
                       "Request additional documentation",
                       "Verify with medical providers">>
                ELSE IF legit <= Pct(70)
                THEN <<"Review documents carefully", "Cross-check policy coverage">>
                ELSE <<"Standard review process", "Verify policy coverage">>
        has_medical_report ==
            \E i \in 1..Len(docs) : docs[i].document_type = "medical_report"
        has_invoice ==
            \E i \in 1..Len(docs) : docs[i].document_type = "invoice"
    IN  tier
        \o (IF ~has_medical_report
            THEN <<"Request medical report for verification">> ELSE <<>>)
        \o (IF ~has_invoice
               /\ \E i \in 1..Len(docs) : ContainsInvoice(docs[i].document_type)
            THEN <<"Request itemized invoice">> ELSE <<>>)

\* Faulty variant: an itemized invoice is requested whenever some document's
\* type contains "invoice", an invoice being present or not.
generate_recommendations_any_invoice(legit, docs) ==
    LET tier == IF legit < Pct(40)
                THEN <<"Conduct detailed manual review",
                       "Request additional documentation",
                       "Verify with medical providers">>
                ELSE IF legit < Pct(70)
                THEN <<"Review documents carefully", "Cross-check policy coverage">>
                ELSE <<"Standard review process", "Verify policy coverage">>
        has_medical_report ==
            \E i \in 1..Len(docs) : docs[i].document_type = "medical_report"
    IN  tier
        \o (IF ~has_medical_report
            THEN <<"Request medical report for verification">> ELSE <<>>)
        \o (IF \E i \in 1..Len(docs) : ContainsInvoice(docs[i].document_type)
            THEN <<"Request itemized invoice">> ELSE <<>>)

\* AIService._generate_recommendations
generate_recommendations(legit, docs) ==
    LET tier == IF legit < Pct(40)
                THEN <<"Conduct detailed manual review",
                       "Request additional documentation",
                       "Verify with medical providers">>
                ELSE IF legit < Pct(70)
                THEN <<"Review documents carefully", "Cross-check policy coverage">>
                ELSE <<"Standard review process", "Verify policy coverage">>
        has_medical_report ==
            \E i \in 1..Len(docs) : docs[i].document_type = "medical_report"
        has_invoice ==
            \E i \in 1..Len(docs) : docs[i].document_type = "invoice"
    IN  tier
        \o (IF ~has_medical_report
            THEN <<"Request medical report for verification">> ELSE <<>>)
        \o (IF ~has_invoice
               /\ \E i \in 1..Len(docs) : ContainsInvoice(docs[i].document_type)
            THEN <<"Request itemized invoice">> ELSE <<>>)

\* --------------------------------------------- the narrative generator

AnalysisKeys == {"fraud_score", "risk_level", "indicators", "recommendations", "confidence"}

\* A parsed JSON value as analyze_fraud_risk reads it.  type is "object" for a
\* JSON object and "array" for any other JSON value (a list, a string, a
\* number, null), which has no get method.  keys are the keys present in the
\* object; valid is FALSE when a value read from it has a type that
\* FraudAnalysisResponse rejects (indicators given as one string, say).
JsonObject(keys, fs, rl, ind, recs, conf, valid) ==
    [type |-> "object", keys |-> keys, fraud_score |-> fs, risk_level |-> rl,
     indicators |-> ind, recommendations |-> recs, confidence |-> conf,
     valid |-> valid]

NoJson == [type |-> "none", keys |-> {}, fraud_score |-> NoScore, risk_level |-> "",
           indicators |-> <<>>, recommendations |-> <<>>, confidence |-> NoScore,
           valid |-> FALSE]

JsonValues ==
    {JsonObject(AnalysisKeys, Pct(85), "high",
                <<"Treatment dates precede the policy start">>,
                <<"Escalate to an investigator">>, 90, TRUE),
     JsonObject(AnalysisKeys, Pct(10), "low", <<>>,
                <<"Approve after routine checks">>, 60, TRUE),
     JsonObject({}, NoScore, "", <<>>, <<>>, NoScore, TRUE),
     JsonObject(AnalysisKeys, Pct(50), "medium",
                <<"Provider could not be verified">>,
                <<"Call the provider">>, 150, TRUE),
     JsonObject(AnalysisKeys, Pct(50), "medium", <<>>, <<>>, 80, FALSE),
     [NoJson EXCEPT !.type = "array"]}

\* What requests.post and the parsing after it give _generate_fraud_analysis
\* (ai_service.py:341-366): requests raises, the status is not 200, the body
\* has no candidates, the candidate text is not JSON, or it parses to a value.
NoReply == [kind |-> "none", json |-> NoJson]

Replies ==
    {[kind |-> k, json |-> NoJson] :
        k \in {"exception", "http_error", "no_candidates", "bad_json"}}
    \cup {[kind |-> "json", json |-> j] : j \in JsonValues}

\* AIService._generate_mock_fraud_analysis; ndocs is len(documents), the
\* claim's Document rows, and nquestions is len(questions).
generate_mock_fraud_analysis(ndocs, nquestions) ==
    LET s1 == IF ndocs < 2 THEN Pct(25) + Pct(10) ELSE Pct(25)
        i1 == IF ndocs < 2 THEN <<"Insufficient documentation">> ELSE <<>>
        score == IF nquestions < 3 THEN s1 + Pct(5) ELSE s1
        indicators == IF nquestions < 3
                      THEN i1 \o <<"Limited questioning completed">> ELSE i1
        level == IF score > Pct(50) THEN "high"
                 ELSE IF score > Pct(30) THEN "medium"
                 ELSE "low"
    IN  JsonObject(AnalysisKeys, Min(score, Pct(100)), level, indicators,
                   <<"Review all submitted documents carefully",
                     "Verify with medical providers",
                     "Cross-check policy coverage">>, 75, TRUE)

\* AIService._generate_fraud_analysis, from the reply on: both except branches
\* return the mock analysis, a parsed reply is returned as it is.
generate_fraud_analysis(rp, ndocs, nquestions) ==
    IF rp.kind = "json" THEN rp.json
    ELSE generate_mock_fraud_analysis(ndocs, nquestions)

\* dict.get(key, default) on the parsed reply
Get(obj, key, value, default) == IF key \in obj.keys THEN value ELSE default

\* ------------------------------------------------------------ the result

NoAnalysis ==
    [fraud_score |-> NoScore, legit_percentage |-> NoScore, risk_level |-> "unset",
     indicators |-> <<>>, recommendations |-> <<>>, confidence |-> NoScore]

NoResponse ==
    [fraud_score |-> NoScore, risk_level |-> "unset", indicators |-> <<>>,
     recommendations |-> <<>>, confidence |-> NoScore]

\* FraudAnalysisResponse(**analysis): the schema has no legit_percentage field
\* and the extra key is dropped.
FraudAnalysisResponse(a) ==
    [fraud_score |-> a.fraud_score, risk_level |-> a.risk_level,
     indicators |-> a.indicators, recommendations |-> a.recommendations,
     confidence |-> a.confidence]

\* ---------------------------------------------------------------- actions

\* No function is being checked on its own.
NoCall == [fn |-> "none"]

NoResult == [returned |-> FALSE]

\* No analyses share the event loop.
NoCoroutines == <<>>

\* The collections before anything was written to them.
NoDatabase == [policies |-> <<>>, claims |-> <<>>, documents |-> <<>>]

\* The moment main.py is imported.
StartupTime == 0

\* No upload_document is waiting for its file.
NoUploads == EmptyBag

Init ==
    /\ model_loaded \in BOOLEAN
    /\ enabled \in BOOLEAN
    /\ documents \in SeqsUpTo(DocumentInputs, MaxDocs)
    /\ questions \in 0..MaxQuestions
    /\ pc = "start"
    /\ model_outcome = NotCalled
    /\ documents_features = <<>>
    /\ legit_percentage = NoScore
    /\ fraud_score = NoScore
    /\ risk_level = "unset"
    /\ strategy = "unset"
    /\ reply = NoReply
    /\ analysis = NoAnalysis
    /\ response = NoResponse
    /\ claim = [fraud_score |-> NoScore, fraud_risk_level |-> "unset"]
    /\ aggregation = NotAggregated
    /\ coroutines = NoCoroutines
    /\ db = NoDatabase
    /\ now = StartupTime
    /\ uploads = NoUploads
    /\ call = NoCall
    /\ result = NoResult

\* analyze_fraud_risk from its entry to the call of requests.post when the
\* narrative generator is enabled (ai_service.py:80-111, 341), and to its
\* return when it is not (ai_service.py:80-135).
AnalyzeBegin ==
    /\ pc = "start"
    /\ LET feats == ProcessDocuments(documents)
       IN  \E o \in (IF model_loaded /\ feats # <<>> THEN ModelOutcomes ELSE {NotCalled}) :
             LET r     == predict_legit_percentage(feats, model_loaded, o)
                 legit == r.value
                 fraud == Pct(100) - legit
                 risk  == RiskLevel(legit)
                 a     == [fraud_score |-> fraud, legit_percentage |-> legit,
                           risk_level |-> risk,
                           indicators |-> extract_indicators_from_features(feats, legit),
                           recommendations |-> generate_recommendations(legit, feats),
                           confidence |-> 75]
             IN  /\ documents_features' = feats
                 /\ model_outcome' = o
                 /\ strategy' = r.strategy
                 /\ aggregation' = r.aggregation
                 /\ IF r.raised
                    THEN /\ pc' = "raised"
                         /\ UNCHANGED <<legit_percentage, fraud_score, risk_level,
                                        analysis, response, claim>>
                    ELSE /\ legit_percentage' = legit
                         /\ fraud_score' = fraud
                         /\ risk_level' = risk
                         /\ IF enabled
                            THEN /\ pc' = "awaiting_reply"
                                 /\ UNCHANGED <<analysis, response, claim>>
                            ELSE /\ analysis' = a
                                 /\ claim' = [fraud_score |-> fraud,
                                              fraud_risk_level |-> risk]
                                 /\ response' = FraudAnalysisResponse(a)
                                 /\ pc' = "done"
    /\ UNCHANGED <<model_loaded, enabled, documents, questions, reply, coroutines,
                   db, now, uploads, call, result>>

\* The external service (or the network) answers the blocked requests.post.
ServiceResponds ==
    /\ pc = "awaiting_reply"
    /\ \E rp \in Replies : reply' = rp
    /\ pc' = "reply_received"
    /\ UNCHANGED <<model_loaded, enabled, documents, questions, model_outcome,
                   documents_features, legit_percentage, fraud_score, risk_level,
                   strategy, analysis, response, claim, aggregation, coroutines,
                   db, now, uploads, call, result>>

\* analyze_fraud_risk from the return of requests.post to its end
\* (ai_service.py:347-373, 111-135).  Reading a reply that is no JSON object
\* raises AttributeError at line 112; a reply whose values have the wrong type
\* raises a validation error at line 135, after the claim row was committed.
AnalyzeResume ==
    /\ pc = "reply_received"
    /\ LET ai == generate_fraud_analysis(reply, Len(documents), questions)
           a  == [fraud_score |-> fraud_score, legit_percentage |-> legit_percentage,
                  risk_level |-> risk_level,
                  indicators |-> Get(ai, "indicators", ai.indicators, <<>>),
                  recommendations |-> Get(ai, "recommendations", ai.recommendations, <<>>),
                  confidence |-> Get(ai, "confidence", ai.confidence, 75)]
       IN  IF ai.type # "object"
           THEN /\ pc' = "raised"
                /\ UNCHANGED <<analysis, response, claim>>
           ELSE /\ analysis' = a
                /\ claim' = [fraud_score |-> fraud_score,
                             fraud_risk_level |-> risk_level]
                /\ IF ai.valid
                   THEN /\ response' = FraudAnalysisResponse(a)
                        /\ pc' = "done"
                   ELSE /\ response' = response
                        /\ pc' = "raised"
    /\ UNCHANGED <<model_loaded, enabled, documents, questions, model_outcome,
                   documents_features, legit_percentage, fraud_score, risk_level,
                   strategy, reply, aggregation, coroutines, db, now,
                   uploads, call, result>>

\* self.model is not None after load_model.
\* `file` is what load_model finds at model_path: no file, a pickle of a
\* trained model, a pickle saved before any training (its model is None), or
\* a file that pickle cannot read.
load_model(loaded, file) ==
    CASE file = "absent"    -> loaded
      [] file = "trained"   -> TRUE
      [] file = "untrained" -> FALSE
      [] file = "corrupt"   -> FALSE

\* self.model is not None after train: the classifier is assigned before fit
\* is called, so a failure of fit leaves an unfitted classifier in place.
\* `outcome` is how far train gets: it raises while splitting or scaling the
\* data, it raises in fit or score, or it returns.
train(loaded, outcome) ==
    IF outcome = "raises_before_fit" THEN loaded ELSE TRUE

\* load_model called on the scorer before the analysis is requested.  The
\* analysis holds the loop's thread from its entry to its return, so the
\* scorer does not change under it.
LoadModel ==
    /\ pc = "start"
    /\ \E file \in {"absent", "trained", "untrained", "corrupt"} :
          model_loaded' = load_model(model_loaded, file)
    /\ UNCHANGED <<enabled, documents, questions, pc, model_outcome,
                   documents_features, legit_percentage, fraud_score, risk_level,
                   strategy, reply, analysis, response, claim, aggregation,
                   coroutines, db, now, uploads, call, result>>

\* train called on the scorer before the analysis is requested.
Train ==
    /\ pc = "start"
    /\ \E outcome \in {"raises_before_fit", "raises_in_fit", "returns"} :
          model_loaded' = train(model_loaded, outcome)
    /\ UNCHANGED <<enabled, documents, questions, pc, model_outcome,
                   documents_features, legit_percentage, fraud_score, risk_level,
                   strategy, reply, analysis, response, claim, aggregation,
                   coroutines, db, now, uploads, call, result>>

Next ==
    \/ AnalyzeBegin
    \/ ServiceResponds
    \/ AnalyzeResume
    \/ LoadModel
    \/ Train

Spec == Init /\ [][Next]_vars

\* The coroutine's own steps are taken whenever they can be; nothing obliges
\* the external service to answer.
FairSpec == Spec /\ WF_vars(AnalyzeBegin) /\ WF_vars(AnalyzeResume)

\* ------------------------------------------------------- DocumentProcessor

\* A text, by what extract_features reads of it: its length, its number of
\* whitespace-separated words, how many matches the date and amount patterns
\* find, how many terms of each vocabulary occur in it, and which of the
\* other patterns match.
EmptyText ==
    [chars |-> 0, words |-> 0, dates |-> 0, amounts |-> 0, phone |-> FALSE,
     email |-> FALSE, medical_terms |-> 0, prescription_terms |-> 0,
     invoice_terms |-> 0, signature |-> FALSE, stamp |-> FALSE,
     doctor |-> FALSE, hospital |-> FALSE, policy |-> FALSE, claim |-> FALSE]

\* What OCR gives for a page without writing: a form feed, no word.
BlankPageText == [EmptyText EXCEPT !.chars = 1]

\* A signed and stamped medical report naming doctor and hospital, one date.
ReportText ==
    [EmptyText EXCEPT !.chars = 600, !.words = 100, !.dates = 1,
                      !.medical_terms = 2, !.signature = TRUE, !.stamp = TRUE,
                      !.doctor = TRUE, !.hospital = TRUE]

\* An invoice with two dates and two amounts.
InvoiceText ==
    [EmptyText EXCEPT !.chars = 300, !.words = 45, !.dates = 2, !.amounts = 2,
                      !.invoice_terms = 4, !.policy = TRUE, !.claim = TRUE]

\* What one extraction library does with a file: the text of the pages it
\* read, and whether it raised (on opening the file, or on a later page).
Raises == [raises |-> TRUE, text |-> EmptyText]

RaisesAfter(text) == [raises |-> TRUE, text |-> text]

Gives(text) == [raises |-> FALSE, text |-> text]

\* The stored files: what pdfplumber, PyPDF2, pytesseract over PIL, and the
\* paragraphs of python-docx make of each.
TextPdf ==
    [pdfplumber |-> Gives(ReportText), pypdf2 |-> Gives(ReportText),
     ocr |-> Raises, paragraphs |-> Raises]

\* A PDF that pdfplumber cannot open and PyPDF2 can.
LegacyPdf == [TextPdf EXCEPT !.pdfplumber = Raises, !.pypdf2 = Gives(InvoiceText)]

\* A PDF whose first page both libraries read and whose second page makes
\* them raise.
DamagedPdf ==
    [TextPdf EXCEPT !.pdfplumber = RaisesAfter(ReportText),
                    !.pypdf2 = RaisesAfter(InvoiceText)]

\* A PDF that pdfplumber cannot open and of which PyPDF2 reads the first page
\* only.
DamagedLegacyPdf == [DamagedPdf EXCEPT !.pdfplumber = Raises]

\* A PDF of scanned pages: no page has a text layer.
ScannedPdf ==
    [TextPdf EXCEPT !.pdfplumber = Gives(EmptyText), !.pypdf2 = Gives(EmptyText)]

\* A corrupt file: every library raises on it.
CorruptFile ==
    [pdfplumber |-> Raises, pypdf2 |-> Raises, ocr |-> Raises, paragraphs |-> Raises]

ReadableImage == [CorruptFile EXCEPT !.ocr = Gives(ReportText)]

BlankImage == [CorruptFile EXCEPT !.ocr = Gives(BlankPageText)]

WordDocument == [CorruptFile EXCEPT !.paragraphs = Gives(InvoiceText)]

FileContents ==
    {TextPdf, LegacyPdf, DamagedPdf, DamagedLegacyPdf, ScannedPdf, CorruptFile,
     ReadableImage, BlankImage, WordDocument}

PdfMime == "application/pdf"

PngMime == "image/png"

DocxMime == "application/vnd.openxmlformats-officedocument.wordprocessingml.document"

\* A stored document: the file, the extension of its path, the media type
\* declared at upload and the document category (None when not given).
StoredDocuments ==
    [content : FileContents,
     extension : {".pdf", ".PDF", ".png", ".docx"},
     mime_type : {PdfMime, PngMime, DocxMime},
     document_type : {"medical_report", "invoice", "None"}]

\* str.lower on the extension of the path.
Lower(ext) == IF ext = ".PDF" THEN ".pdf" ELSE ext

\* file_type.startswith('image/')
StartsWithImage(file_type) == file_type \in {PngMime, "image/jpeg", "image/jpg"}

\* Faulty variant: without the outer try, a failure of PyPDF2 leaves the
\* function as an exception.
extract_text_from_pdf_no_outer_try(content) ==
    LET text_content == content.pdfplumber.text
    IN  IF text_content # EmptyText THEN [raised |-> FALSE, text |-> text_content]
        ELSE IF content.pypdf2.raises THEN [raised |-> TRUE, text |-> EmptyText]
        ELSE [raised |-> FALSE, text |-> content.pypdf2.text]

\* extract_text_from_pdf: the pages pdfplumber read, whether or not it raised
\* after them; PyPDF2 when pdfplumber read no text; "" when PyPDF2 raises,
\* whatever it had read.
extract_text_from_pdf(content) ==
    LET text_content == content.pdfplumber.text
    IN  IF text_content # EmptyText THEN [raised |-> FALSE, text |-> text_content]
        ELSE IF content.pypdf2.raises THEN [raised |-> FALSE, text |-> EmptyText]
        ELSE [raised |-> FALSE, text |-> content.pypdf2.text]

\* extract_text_from_image: the OCR text, "" when opening or OCR raises.
extract_text_from_image(content) ==
    IF content.ocr.raises THEN [raised |-> FALSE, text |-> EmptyText]
    ELSE [raised |-> FALSE, text |-> content.ocr.text]

\* extract_text(file_path, file_type)
extract_text(doc, file_type) ==
    IF file_type = PdfMime \/ Lower(doc.extension) = ".pdf"
    THEN extract_text_from_pdf(doc.content)
    ELSE IF StartsWithImage(file_type)
         THEN extract_text_from_image(doc.content)
         ELSE [raised |-> FALSE, text |-> EmptyText]

\* Faulty variant: two or more matches count as inconsistent.
check_consistency_inconsistent(matches) == IF matches < 2 THEN 100 ELSE 40

\* _check_date_consistency and _check_amount_consistency, on the number of
\* matches of the pattern.
check_consistency(matches) == IF matches < 2 THEN 100 ELSE 80

\* extract_features(text, document_type)
extract_features(text, document_type) ==
    [document_type |-> document_type,
     text_length |-> text.chars,
     word_count |-> IF text.chars > 0 THEN text.words ELSE 0,
     has_dates |-> text.dates > 0,
     has_amounts |-> text.amounts > 0,
     has_phone_numbers |-> text.phone,
     has_email |-> text.email,
     has_medical_terms |-> text.medical_terms,
     has_prescription_terms |-> text.prescription_terms,
     has_invoice_terms |-> text.invoice_terms,
     date_consistency |-> check_consistency(text.dates),
     amount_consistency |-> check_consistency(text.amounts),
     has_signature |-> text.signature,
     has_stamp |-> text.stamp,
     has_doctor_name |-> text.doctor,
     has_hospital_name |-> text.hospital,
     has_policy_number |-> text.policy,
     has_claim_number |-> text.claim]

\* process_document(file_path, document_type): the document category is what
\* it hands to extract_text as file_type.  (The record of features also gets
\* the first 1000 characters of the text, which no scorer reads.)
process_document(doc, document_type) ==
    LET t == extract_text(doc, document_type)
    IN  IF t.raised
        THEN [returned |-> TRUE, raised |-> TRUE, text |-> EmptyText,
              features |-> extract_features(EmptyText, document_type)]
        ELSE [returned |-> TRUE, raised |-> FALSE, text |-> t.text,
              features |-> extract_features(t.text, document_type)]

\* doc.document_type or 'other'
DocumentTypeOrOther(t) == IF t = "None" THEN "other" ELSE t

\* The analysis pipeline is at rest.
PipelineIdle ==
    /\ model_loaded = FALSE
    /\ enabled = FALSE
    /\ documents = <<>>
    /\ questions = 0
    /\ pc = "idle"
    /\ model_outcome = NotCalled
    /\ documents_features = <<>>
    /\ legit_percentage = NoScore
    /\ fraud_score = NoScore
    /\ risk_level = "unset"
    /\ strategy = "unset"
    /\ reply = NoReply
    /\ analysis = NoAnalysis
    /\ response = NoResponse
    /\ claim = [fraud_score |-> NoScore, fraud_risk_level |-> "unset"]
    /\ aggregation = NotAggregated
    /\ coroutines = NoCoroutines

\* No analysis is running: the state around a call checked on its own.
NoAnalysisRunning ==
    /\ PipelineIdle
    /\ db = NoDatabase
    /\ now = StartupTime
    /\ uploads = NoUploads

PipelineVars ==
    <<model_loaded, enabled, documents, questions, pc, model_outcome,
      documents_features, legit_percentage, fraud_score, risk_level, strategy,
      reply, analysis, response, claim, aggregation, coroutines>>

AnalysisVars == <<PipelineVars, db, now, uploads>>

ExtractInit ==
    /\ NoAnalysisRunning
    /\ call \in [fn : {"process_document"}, doc : StoredDocuments]
               \cup [fn : {"extract_text"}, doc : StoredDocuments,
                     file_type : {PdfMime, PngMime, DocxMime}]
    /\ result = NoResult

\* The call analyze_fraud_risk makes for one document whose file exists
\* (ai_service.py:85-88).
ProcessDocument ==
    /\ call.fn = "process_document"
    /\ ~result.returned
    /\ result' = process_document(call.doc, DocumentTypeOrOther(call.doc.document_type))
    /\ UNCHANGED <<call, AnalysisVars>>

\* extract_text called with the declared media type as file_type, and
\* extract_features on the text it returns.
ExtractText ==
    /\ call.fn = "extract_text"
    /\ ~result.returned
    /\ LET t == extract_text(call.doc, call.file_type)
           document_type == DocumentTypeOrOther(call.doc.document_type)
       IN  result' = [returned |-> TRUE, raised |-> t.raised, text |-> t.text,
                      features |-> extract_features(t.text, document_type)]
    /\ UNCHANGED <<call, AnalysisVars>>

ExtractNext == ProcessDocument \/ ExtractText

ExtractSpec == ExtractInit /\ [][ExtractNext]_vars

AggregateInit ==
    /\ NoAnalysisRunning
    /\ call \in [fn : {"aggregate_features"}, docs : SeqsUpTo(FeaturePool, MaxDocs)]
    /\ result = NoResult

\* One call of _aggregate_features on a list of feature records, and of
\* _extract_features_vector on the aggregate (fraud_detection_model.py:80-83).
AggregateFeatures ==
    /\ call.fn = "aggregate_features"
    /\ ~result.returned
    /\ LET aggregated == aggregate_features(call.docs)
       IN  result' = [returned |-> TRUE, raised |-> FALSE,
                      aggregated |-> aggregated,
                      vector |-> extract_features_vector(aggregated)]
    /\ UNCHANGED <<call, AnalysisVars>>

AggregateNext == AggregateFeatures

AggregateSpec == AggregateInit /\ [][AggregateNext]_vars

\* Variants of the signed medical report: text length around 500, medical
\* terms around the threshold of three, with or without policy number, claim
\* number and dates, date consistency around one half.
ScenarioDocuments ==
    {[SignedReportFeatures EXCEPT !.text_length = t, !.has_medical_terms = m,
                                  !.has_policy_number = p, !.has_claim_number = c,
                                  !.has_dates = dt, !.date_consistency = dc] :
        t \in {500, 501, 600}, m \in {2, 3, 4}, p \in BOOLEAN, c \in BOOLEAN,
        dt \in BOOLEAN, dc \in {40, 50, 100}}

ScenarioInit ==
    /\ NoAnalysisRunning
    /\ call \in [fn : {"predict_legit_percentage"},
                 docs : {<<d>> : d \in ScenarioDocuments}]
    /\ result = NoResult

\* predict_legit_percentage without a trained model, and the risk level
\* analyze_fraud_risk derives from its value (ai_service.py:95-104).
ScoreWithoutModel ==
    /\ call.fn = "predict_legit_percentage"
    /\ ~result.returned
    /\ LET r == predict_legit_percentage(call.docs, FALSE, NotCalled)
       IN  result' = [returned |-> TRUE, raised |-> r.raised,
                      legit_percentage |-> r.value,
                      risk_level |-> RiskLevel(r.value)]
    /\ UNCHANGED <<call, AnalysisVars>>

ScenarioNext == ScoreWithoutModel

ScenarioSpec == ScenarioInit /\ [][ScenarioNext]_vars

\* Document types: the five the upload infers from a file name, and one a
\* client may give in the upload form, whose name contains "invoice".
InferredDocumentTypes ==
    {"medical_report", "prescription", "invoice", "lab_result", "other"}

DocumentTypeNames == InferredDocumentTypes \cup {"pharmacy_invoice"}

\* Feature records that differ in their document type only.
TypedFeatures == {[PlainFeatures EXCEPT !.document_type = t] : t \in DocumentTypeNames}

\* Legit percentages at and around the two thresholds.
LegitPercentages ==
    {Pct(0), Pct(40) - 1, Pct(40), Pct(50), Pct(70) - 1, Pct(70), Pct(100)}

RecommendInit ==
    /\ NoAnalysisRunning
    /\ call \in [fn : {"generate_recommendations"},
                 legit_percentage : LegitPercentages,
                 docs : SeqsUpTo(TypedFeatures, MaxDocs)]
    /\ result = NoResult

\* One call of _generate_recommendations.
GenerateRecommendations ==
    /\ call.fn = "generate_recommendations"
    /\ ~result.returned
    /\ result' = [returned |-> TRUE, raised |-> FALSE,
                  recommendations |->
                      generate_recommendations(call.legit_percentage, call.docs)]
    /\ UNCHANGED <<call, AnalysisVars>>

RecommendNext == GenerateRecommendations

RecommendSpec == RecommendInit /\ [][RecommendNext]_vars

\* --------------------------------------- analyses of two claims, one loop

\* The claims analysed at the same time.  main.py creates one AIService (one
\* scorer, one document processor) and serves every request on one event
\* loop; analyze_fraud_risk has no await that suspends it, and requests.post
\* blocks the loop's thread until the narrative service answers.
ClaimIds == {"first", "second"}

ConcurrentDocuments ==
    {<<>>,
     <<[file |-> "ok", features |-> SignedReportFeatures]>>,
     <<[file |-> "missing", features |-> EmptyTextFeatures],
       [file |-> "ok", features |-> SuspectInvoiceFeatures]>>}

ConcurrentOutcomes ==
    {o \in ModelOutcomes : o.kind = "fail" /\ o.at = "predict"}
    \cup {o \in ModelOutcomes : o.kind = "predict"}

ConcurrentReplies ==
    {rp \in Replies : rp.kind = "http_error"}
    \cup {rp \in Replies : rp.kind = "json" /\ rp.json.type = "array"}
    \cup {rp \in Replies : rp.kind = "json" /\ rp.json.type = "object"
                           /\ rp.json.valid /\ rp.json.confidence = 60}

\* The result dictionary of analyze_fraud_risk (ai_service.py:120-127).
AnalysisDict(legit, indicators, recommendations, confidence) ==
    [fraud_score |-> Pct(100) - legit, legit_percentage |-> legit,
     risk_level |-> RiskLevel(legit), indicators |-> indicators,
     recommendations |-> recommendations, confidence |-> confidence]

ConcurrentInit ==
    /\ model_loaded \in BOOLEAN
    /\ enabled \in BOOLEAN
    /\ documents = <<>>
    /\ questions = 0
    /\ pc = "idle"
    /\ model_outcome = NotCalled
    /\ documents_features = <<>>
    /\ legit_percentage = NoScore
    /\ fraud_score = NoScore
    /\ risk_level = "unset"
    /\ strategy = "unset"
    /\ reply = NoReply
    /\ analysis = NoAnalysis
    /\ response = NoResponse
    /\ claim = [fraud_score |-> NoScore, fraud_risk_level |-> "unset"]
    /\ aggregation = NotAggregated
    /\ db = NoDatabase
    /\ now = StartupTime
    /\ uploads = NoUploads
    /\ call = NoCall
    /\ result = NoResult
    /\ \E docs \in [ClaimIds -> ConcurrentDocuments] :
         coroutines = [i \in ClaimIds |->
                         [pc |-> "start", documents |-> docs[i],
                          model_outcome |-> NotCalled, legit_percentage |-> NoScore,
                          reply |-> NoReply, response |-> NoResponse,
                          row |-> [fraud_score |-> NoScore,
                                   fraud_risk_level |-> "unset"]]]

\* The loop's thread is inside the analysis of claim i.
HoldsThread(i) == coroutines[i].pc \in {"awaiting_reply", "reply_received"}

NotCoroutines ==
    <<model_loaded, enabled, documents, questions, pc, model_outcome,
      documents_features, legit_percentage, fraud_score, risk_level, strategy,
      reply, analysis, response, claim, aggregation, db, now, uploads, call, result>>

\* The loop starts the analysis of claim i and runs it to requests.post when
\* the narrative generator is enabled, and to its return when it is not.
CoroutineBegin(i) ==
    /\ coroutines[i].pc = "start"
    /\ \A j \in ClaimIds \ {i} : ~HoldsThread(j)
    /\ LET c     == coroutines[i]
           feats == ProcessDocuments(c.documents)
       IN  \E o \in (IF model_loaded /\ feats # <<>> THEN ConcurrentOutcomes
                     ELSE {NotCalled}) :
             LET legit == predict_legit_percentage(feats, model_loaded, o).value
                 a == AnalysisDict(legit,
                                   extract_indicators_from_features(feats, legit),
                                   generate_recommendations(legit, feats), 75)
             IN  coroutines' =
                   [coroutines EXCEPT ![i] =
                      IF enabled
                      THEN [c EXCEPT !.pc = "awaiting_reply", !.model_outcome = o,
                                     !.legit_percentage = legit]
                      ELSE [c EXCEPT !.pc = "done", !.model_outcome = o,
                                     !.legit_percentage = legit,
                                     !.response = FraudAnalysisResponse(a),
                                     !.row = [fraud_score |-> a.fraud_score,
                                              fraud_risk_level |-> a.risk_level]]]
    /\ UNCHANGED NotCoroutines

\* The narrative service answers the request made for claim i.
CoroutineServiceResponds(i) ==
    /\ coroutines[i].pc = "awaiting_reply"
    /\ \E rp \in ConcurrentReplies :
         coroutines' = [coroutines EXCEPT ![i].pc = "reply_received", ![i].reply = rp]
    /\ UNCHANGED NotCoroutines

\* The analysis of claim i from the return of requests.post to its end; the
\* claims have no questions.
CoroutineResume(i) ==
    /\ coroutines[i].pc = "reply_received"
    /\ LET c  == coroutines[i]
           ai == generate_fraud_analysis(c.reply, Len(c.documents), 0)
           a  == AnalysisDict(c.legit_percentage,
                              Get(ai, "indicators", ai.indicators, <<>>),
                              Get(ai, "recommendations", ai.recommendations, <<>>),
                              Get(ai, "confidence", ai.confidence, 75))
       IN  coroutines' =
             [coroutines EXCEPT ![i] =
                IF ai.type # "object" THEN [c EXCEPT !.pc = "raised"]
                ELSE IF ~ai.valid
                THEN [c EXCEPT !.pc = "raised",
                               !.row = [fraud_score |-> a.fraud_score,
                                        fraud_risk_level |-> a.risk_level]]
                ELSE [c EXCEPT !.pc = "done",
                               !.response = FraudAnalysisResponse(a),
                               !.row = [fraud_score |-> a.fraud_score,
                                        fraud_risk_level |-> a.risk_level]]]
    /\ UNCHANGED NotCoroutines

ConcurrentNext ==
    \E i \in ClaimIds :
        CoroutineBegin(i) \/ CoroutineServiceResponds(i) \/ CoroutineResume(i)

ConcurrentSpec == ConcurrentInit /\ [][ConcurrentNext]_vars

\* The loop runs whatever it can run.  The narrative service answers every
\* request made for the second claim; nothing obliges it to answer one made
\* for the first.
ConcurrentFairSpec ==
    /\ ConcurrentSpec
    /\ \A i \in ClaimIds : WF_vars(CoroutineBegin(i)) /\ WF_vars(CoroutineResume(i))
    /\ WF_vars(CoroutineServiceResponds("second"))

\* --------------------------------------------------------- DocumentService

\* Most documents the documents collection holds, those of the uploads that
\* wait for their file counted in.
MaxStored == 2

Megabytes(n) == n * 1024 * 1024

MAX_FILE_SIZE == Megabytes(10)

ALLOWED_EXTENSIONS == {".pdf", ".jpg", ".jpeg", ".png", ".doc", ".docx"}

ALLOWED_MIME_TYPES ==
    {PdfMime, "image/jpeg", "image/jpg", PngMime, "application/msword", DocxMime}

\* file.content_type of an upload that declares no media type.
NoContentType == ""

\* document_type of a call that names no category.
NoDocumentType == ""

\* An upload, by what upload_document reads of it: the file name as
\* os.path.splitext cuts it, the keywords of _infer_document_type that occur
\* in its lower-cased name, the declared media type and len(content).
ReportUpload ==
    [filename |-> [root |-> "report", ext |-> ".pdf"], keywords |-> {"report"},
     content_type |-> PdfMime, size |-> 1]

CapitalsUpload ==
    [filename |-> [root |-> "SCAN", ext |-> ".PDF"], keywords |-> {},
     content_type |-> NoContentType, size |-> MAX_FILE_SIZE]

OversizedUpload ==
    [filename |-> [root |-> "rx", ext |-> ".png"], keywords |-> {"rx"},
     content_type |-> PngMime, size |-> MAX_FILE_SIZE + 1]

\* The uploads: the three above, and a program, a name without extension, a
\* PDF declared as plain text and a Word document without content.
UploadFiles ==
    {ReportUpload, CapitalsUpload, OversizedUpload,
     [filename |-> [root |-> "bill", ext |-> ".exe"], keywords |-> {"bill"},
      content_type |-> PdfMime, size |-> 1],
     [filename |-> [root |-> "invoice", ext |-> ""], keywords |-> {"invoice"},
      content_type |-> NoContentType, size |-> 1],
     [filename |-> [root |-> "lab_result", ext |-> ".pdf"],
      keywords |-> {"lab", "result"}, content_type |-> "text/plain", size |-> 1],
     [filename |-> [root |-> "receipt", ext |-> ".docx"], keywords |-> {"receipt"},
      content_type |-> DocxMime, size |-> 0]}

\* Claim ids the documents are uploaded for.
UploadClaimIds == {"claim_a", "claim_b"}

\* claim_id of a search over the documents of all claims.
AnyClaim == ""

\* Document ids handed to the service: 0 is a string that is no ObjectId,
\* the others are the ObjectIds in the order upload_document generates them.
MalformedId == 0

DocumentIds == MalformedId .. (MaxStored + 1)

\* The upload is held in memory: starlette keeps a file of up to 1 MB in
\* memory and reads it without leaving the event loop, and reads a larger
\* one, which it keeps on disk, in a thread.
HeldInMemory(file) == file.size <= Megabytes(1)

\* raise HTTPException(status_code=..)
HTTPException(status_code) == [raised |-> TRUE, status_code |-> status_code]

\* mimetypes.guess_type(file.filename)[0], "" for None.
GuessType(filename) ==
    LET ext == Lower(filename.ext)
    IN  CASE ext = ".pdf"  -> PdfMime
          [] ext = ".png"  -> PngMime
          [] ext \in {".jpg", ".jpeg"} -> "image/jpeg"
          [] ext = ".doc"  -> "application/msword"
          [] ext = ".docx" -> DocxMime
          [] ext = ".exe"  -> "application/x-msdos-program"
          [] OTHER -> NoContentType

infer_document_type(file) ==
    CASE file.keywords \cap {"medical", "report", "diagnosis"} # {} -> "medical_report"
      [] file.keywords \cap {"prescription", "rx"} # {} -> "prescription"
      [] file.keywords \cap {"invoice", "bill", "receipt"} # {} -> "invoice"
      [] file.keywords \cap {"lab", "test", "result"} # {} -> "lab_result"
      [] OTHER -> "other"

validate_file(file) ==
    IF Lower(file.filename.ext) \notin ALLOWED_EXTENSIONS
    THEN HTTPException(400)
    ELSE IF file.content_type # NoContentType
            /\ file.content_type \notin ALLOWED_MIME_TYPES
         THEN HTTPException(400)
         ELSE [raised |-> FALSE, status_code |-> 200]

\* The record upload_document inserts.  The stored bytes, their hash, the
\* extracted text and the upload time are left out; the embedding is kept as
\* the fact that the record has one.
DocumentRecord(id, claim_id, file, document_type) ==
    [id |-> id,
     claim_id |-> claim_id,
     filename |-> file.filename,
     document_type |-> IF document_type = NoDocumentType
                       THEN infer_document_type(file)
                       ELSE document_type,
     mime_type |-> IF file.content_type # NoContentType THEN file.content_type
                   ELSE IF GuessType(file.filename) # NoContentType
                        THEN GuessType(file.filename)
                        ELSE "application/octet-stream",
     file_size |-> file.size,
     embedding |-> TRUE,
     status |-> "active"]

\* What the queries return of a record.
DocumentSummary(doc) ==
    [id |-> doc.id, claim_id |-> doc.claim_id, filename |-> doc.filename,
     document_type |-> doc.document_type, file_size |-> doc.file_size,
     mime_type |-> doc.mime_type, has_embedding |-> doc.embedding]

\* Faulty variant: the record is inserted before the size of the content is
\* looked at.
upload_document_inserts_before_size_checks(collection, claim_id, file, document_type) ==
    LET valid  == validate_file(file)
        record == DocumentRecord(Len(collection) + 1, claim_id, file, document_type)
    IN  IF valid.raised
        THEN [raised |-> TRUE, status_code |-> valid.status_code,
              collection |-> collection]
        ELSE IF file.size > MAX_FILE_SIZE \/ file.size = 0
             THEN [raised |-> TRUE, status_code |-> 400,
                   collection |-> Append(collection, record)]
             ELSE [raised |-> FALSE, status_code |-> 200,
                   value |-> DocumentSummary(record),
                   collection |-> Append(collection, record)]

\* upload_document on the documents collection: what it raises or returns,
\* and the collection it leaves.
upload_document(collection, claim_id, file, document_type) ==
    LET valid  == validate_file(file)
        record == DocumentRecord(Len(collection) + 1, claim_id, file, document_type)
    IN  IF valid.raised
        THEN [raised |-> TRUE, status_code |-> valid.status_code,
              collection |-> collection]
        ELSE IF file.size > MAX_FILE_SIZE
             THEN [raised |-> TRUE, status_code |-> 400, collection |-> collection]
             ELSE IF file.size = 0
                  THEN [raised |-> TRUE, status_code |-> 400,
                        collection |-> collection]
                  ELSE [raised |-> FALSE, status_code |-> 200,
                        value |-> DocumentSummary(record),
                        collection |-> Append(collection, record)]

\* db.documents.find(filter), in the order of insertion.
FindDocuments(collection, claim_id, statuses) ==
    SelectSeq(collection,
              LAMBDA doc : /\ doc.status \in statuses
                           /\ claim_id \in {AnyClaim, doc.claim_id})

get_documents_by_claim(collection, claim_id) ==
    LET found == SelectSeq(collection,
                           LAMBDA doc : /\ doc.claim_id = claim_id
                                        /\ doc.status = "active")
    IN  [i \in 1..Len(found) |-> DocumentSummary(found[i])]

\* None, or the record found.
get_document_by_id(collection, document_id) ==
    IF document_id = MalformedId \/ document_id > Len(collection)
    THEN [found |-> FALSE]
    ELSE [found |-> TRUE, value |-> DocumentSummary(collection[document_id])]

\* Faulty variant: the filter of the search leaves the status out.
search_similar_documents_any_status(collection, claim_id) ==
    LET found == FindDocuments(collection, claim_id, {"active", "deleted"})
    IN  {[id |-> found[i].id, claim_id |-> found[i].claim_id,
          filename |-> found[i].filename,
          document_type |-> found[i].document_type] :
            i \in {j \in 1..Len(found) : found[j].embedding}}

\* search_similar_documents, as the set of its results: the similarity scores
\* and the order they give are left out, and limit is no smaller than the
\* collection.
search_similar_documents(collection, claim_id) ==
    LET found == FindDocuments(collection, claim_id, {"active"})
    IN  {[id |-> found[i].id, claim_id |-> found[i].claim_id,
          filename |-> found[i].filename,
          document_type |-> found[i].document_type] :
            i \in {j \in 1..Len(found) : found[j].embedding}}

\* delete_document: update_one sets the status and deleted_at, and the call
\* returns whether the record was modified.  A record deleted before is
\* modified only when the clock gives a deleted_at other than the stored one
\* (they are equal within the same millisecond); a malformed id raises inside
\* the try.  The value of deleted_at is left out of the record.
delete_document(collection, document_id, same_millisecond) ==
    IF document_id = MalformedId \/ document_id > Len(collection)
    THEN [value |-> FALSE, collection |-> collection]
    ELSE [value |-> ~(collection[document_id].status = "deleted" /\ same_millisecond),
          collection |-> [collection EXCEPT ![document_id].status = "deleted"]]

DocumentServiceInit ==
    /\ PipelineIdle
    /\ db = NoDatabase
    /\ now = StartupTime
    /\ uploads = NoUploads
    /\ call = NoCall
    /\ result = NoResult

\* What the caller of upload_document gets.
UploadResult(r) ==
    IF r.raised
    THEN [returned |-> TRUE, raised |-> TRUE, status_code |-> r.status_code]
    ELSE [returned |-> TRUE, raised |-> FALSE, status_code |-> r.status_code,
          value |-> r.value]

\* upload_document from its entry: to its end when _validate_file raises or
\* when the file is held in memory (file.read() then returns without giving
\* up the event loop), and to `await file.read()` when the file is on disk,
\* where the loop runs other requests until the content is there.
UploadDocument ==
    \E claim_id \in UploadClaimIds, file \in UploadFiles,
       document_type \in {NoDocumentType, "invoice"} :
      LET r == upload_document(db.documents, claim_id, file, document_type)
          c == [fn |-> "upload_document", claim_id |-> claim_id,
                file |-> file, document_type |-> document_type]
      IN  /\ call' = c
          /\ IF validate_file(file).raised \/ HeldInMemory(file)
             THEN /\ r.raised \/ Len(db.documents) + BagCardinality(uploads) < MaxStored
                  /\ db' = [db EXCEPT !.documents = r.collection]
                  /\ result' = UploadResult(r)
                  /\ UNCHANGED uploads
             ELSE /\ Len(db.documents) + BagCardinality(uploads) < MaxStored
                  /\ uploads' = uploads (+) SetToBag({c})
                  /\ result' = NoResult
                  /\ UNCHANGED db
          /\ UNCHANGED <<PipelineVars, now>>

\* upload_document from the return of file.read() to its end: the size
\* checks and the insert, on the collection as it is by then.  Of several
\* waiting calls with the same arguments one returns and the others wait on.
UploadResume ==
    \E c \in BagToSet(uploads) :
      LET r == upload_document(db.documents, c.claim_id, c.file, c.document_type)
      IN  /\ uploads' = uploads (-) SetToBag({c})
          /\ call' = c
          /\ db' = [db EXCEPT !.documents = r.collection]
          /\ result' = UploadResult(r)
          /\ UNCHANGED <<PipelineVars, now>>

DeleteDocument ==
    \E document_id \in DocumentIds, same_millisecond \in BOOLEAN :
      LET r == delete_document(db.documents, document_id, same_millisecond)
      IN  /\ db' = [db EXCEPT !.documents = r.collection]
          /\ call' = [fn |-> "delete_document", document_id |-> document_id]
          /\ result' = [returned |-> TRUE, raised |-> FALSE, value |-> r.value]
          /\ UNCHANGED <<PipelineVars, now, uploads>>

GetDocumentsByClaim ==
    \E claim_id \in UploadClaimIds :
      /\ call' = [fn |-> "get_documents_by_claim", claim_id |-> claim_id]
      /\ result' = [returned |-> TRUE, raised |-> FALSE,
                    value |-> get_documents_by_claim(db.documents, claim_id)]
      /\ UNCHANGED <<PipelineVars, db, now, uploads>>

SearchSimilarDocuments ==
    \E claim_id \in UploadClaimIds \cup {AnyClaim} :
      /\ call' = [fn |-> "search_similar_documents", claim_id |-> claim_id]
      /\ result' = [returned |-> TRUE, raised |-> FALSE,
                    value |-> search_similar_documents(db.documents, claim_id)]
      /\ UNCHANGED <<PipelineVars, db, now, uploads>>

GetDocumentById ==
    \E document_id \in DocumentIds :
      /\ call' = [fn |-> "get_document_by_id", document_id |-> document_id]
      /\ result' = [returned |-> TRUE, raised |-> FALSE,
                    value |-> get_document_by_id(db.documents, document_id)]
      /\ UNCHANGED <<PipelineVars, db, now, uploads>>

DocumentServiceNext ==
    \/ UploadDocument
    \/ UploadResume
    \/ DeleteDocument
    \/ GetDocumentsByClaim
    \/ SearchSimilarDocuments
    \/ GetDocumentById

DocumentServiceSpec == DocumentServiceInit /\ [][DocumentServiceNext]_vars

\* ------------------------------------------------- PolicyService and claims

\* Most claims the claims collection holds.
MaxClaims == 2

\* Most advances of the clock.
MaxTicks == 5

\* timedelta(days=n)
Days(n) == n

\* The time that passes between two looks at the clock.
HalfYear == Days(180)

\* The policies seed_sample_policies inserts into an empty collection.
SamplePolicies ==
    <<[policy_number |-> "POL-2024-001", expiry_date |-> StartupTime + Days(365)],
      [policy_number |-> "POL-2024-002", expiry_date |-> StartupTime + Days(180)],
      [policy_number |-> "POL-2024-003", expiry_date |-> StartupTime + Days(730)]>>

\* A collection that was not empty at startup, which the seeding leaves alone:
\* one policy that expired before the backend started and one without an
\* expiry date.
EarlierPolicies ==
    <<[policy_number |-> "POL-2020-001", expiry_date |-> StartupTime - Days(30)],
      [policy_number |-> "POL-2020-002"]>>

\* Policy numbers of the requests: those of the collections and one that no
\* collection holds.
PolicyNumbers ==
    {"POL-2024-001", "POL-2024-002", "POL-2024-003", "POL-2020-001",
     "POL-2020-002", "POL-0000-000"}

\* mongo_db.policies.find_one({"policy_number": policy_number})
FindPolicy(policies, policy_number) ==
    LET found == SelectSeq(policies, LAMBDA p : p.policy_number = policy_number)
    IN  IF found = <<>> THEN [found |-> FALSE]
        ELSE [found |-> TRUE, policy |-> found[1]]

\* Faulty variant: the expiry date of the policy is not looked at.
verify_policy_ignores_expiry(policies, policy_number, at) ==
    FindPolicy(policies, policy_number)

\* verify_policy at time `at`: None, or the policy.
verify_policy(policies, policy_number, at) ==
    LET p == FindPolicy(policies, policy_number)
    IN  IF p.found
        THEN IF "expiry_date" \in DOMAIN p.policy /\ p.policy.expiry_date < at
             THEN [found |-> FALSE]
             ELSE p
        ELSE [found |-> FALSE]

\* claim_doc of create_claim: created_at and updated_at are two reads of the
\* clock.  The claim type, the incident date and the description of the
\* request are copied to the record and are left out.
ClaimRecord(id, policy_number, created_at, updated_at) ==
    [id |-> id,
     policy_number |-> policy_number,
     status |-> "pending",
     fraud_score |-> NoScore,
     fraud_risk_level |-> "unset",
     created_at |-> created_at,
     updated_at |-> updated_at,
     documents |-> <<>>,
     questions_count |-> 0]

\* create_claim: what it raises or returns and the claims collection it
\* leaves.  The clock is read by verify_policy (`at`), then for created_at and
\* then for updated_at.  ClaimResponse declares id as an int and is given
\* str(ObjectId): building the response, after the insert, succeeds only when
\* the 24 hexadecimal digits of the new id are all decimal.
create_claim(database, policy_number, at, created_at, updated_at, id_is_decimal) ==
    LET policy == verify_policy(database.policies, policy_number, at)
        record == ClaimRecord(Len(database.claims) + 1, policy_number,
                              created_at, updated_at)
    IN  IF ~policy.found
        THEN [raised |-> TRUE, status_code |-> 404, claims |-> database.claims]
        ELSE IF id_is_decimal
             THEN [raised |-> FALSE, status_code |-> 200,
                   claims |-> Append(database.claims, record),
                   value |-> [id |-> record.id,
                              policy_number |-> record.policy_number,
                              status |-> record.status,
                              created_at |-> record.created_at,
                              fraud_score |-> record.fraud_score,
                              fraud_risk_level |-> record.fraud_risk_level]]
             ELSE [raised |-> TRUE, status_code |-> 500,
                   claims |-> Append(database.claims, record)]

ClaimsInit ==
    /\ PipelineIdle
    /\ \E policies \in {SamplePolicies, EarlierPolicies} :
         db = [NoDatabase EXCEPT !.policies = policies]
    /\ now = StartupTime
    /\ uploads = NoUploads
    /\ call = NoCall
    /\ result = NoResult

\* create_claim, with the time that passes between its reads of the clock.
CreateClaim ==
    \E policy_number \in PolicyNumbers, id_is_decimal \in BOOLEAN,
       created_at \in {now, now + HalfYear} :
      \E updated_at \in {created_at, created_at + HalfYear} :
        LET r == create_claim(db, policy_number, now, created_at, updated_at,
                              id_is_decimal)
        IN  /\ r.claims = db.claims \/ Len(db.claims) < MaxClaims
            /\ updated_at <= StartupTime + MaxTicks * HalfYear
            /\ db' = [db EXCEPT !.claims = r.claims]
            /\ now' = IF r.claims = db.claims THEN now ELSE updated_at
            /\ call' = [fn |-> "create_claim", policy_number |-> policy_number,
                        at |-> now]
            /\ result' = IF r.raised
                         THEN [returned |-> TRUE, raised |-> TRUE,
                               status_code |-> r.status_code]
                         ELSE [returned |-> TRUE, raised |-> FALSE,
                               status_code |-> r.status_code, value |-> r.value]
            /\ UNCHANGED <<PipelineVars, uploads>>

\* Time passes between two requests.
ClockAdvances ==
    /\ now < StartupTime + MaxTicks * HalfYear
    /\ now' = now + HalfYear
    /\ UNCHANGED <<PipelineVars, db, uploads, call, result>>

ClaimsNext == CreateClaim \/ ClockAdvances

ClaimsSpec == ClaimsInit /\ [][ClaimsNext]_vars

\* ----------------------------------------------------------------- claims

Scored == pc \in {"awaiting_reply", "reply_received", "done"}

\* An exception left predict_legit_percentage: analyze_fraud_risk ended
\* before it reached the narrative generator.
ScorerRaised == pc = "raised" /\ reply = NoReply

\* The legit percentage the scorer gives the claim's documents: a function
\* of the documents, of whether a model is loaded and of what the model does.
ScorerValue ==
    predict_legit_percentage(ProcessDocuments(documents), model_loaded,
                             model_outcome).value

\* C1: for every document list, with or without a model, with the model path
\* succeeding or failing, 0 <= legit_percentage <= 100, and the fraud_score
\* that analyze_fraud_risk computes, stores and returns is
\* 100 - legit_percentage.
C1_ScoreInRange ==
    /\ Scored =>
         /\ Pct(0) <= legit_percentage /\ legit_percentage <= Pct(100)
         /\ fraud_score = Pct(100) - legit_percentage
    /\ pc = "done" =>
         /\ analysis.fraud_score = Pct(100) - analysis.legit_percentage
         /\ analysis.legit_percentage = legit_percentage
         /\ response.fraud_score = Pct(100) - legit_percentage

\* Two rich documents: the unclamped rule-based total is 118.
C1_Witness ==
    /\ pc = "done"
    /\ strategy = "rules"
    /\ documents_features = <<RichFeatures, RichFeatures>>
    /\ legit_percentage = Pct(100)
    /\ response.fraud_score = Pct(0)

\* C2: when a model is loaded and a step of the model path fails, the scorer
\* returns to its caller (no exception leaves it) and the value it returns is
\* exactly the rule-based score of the same document list.
C2_FallbackIsRuleBased ==
    (pc # "start" /\ model_loaded /\ model_outcome.kind = "fail") =>
        /\ ~ScorerRaised
        /\ legit_percentage = rule_based_scoring(documents_features)
        /\ strategy = "fallback"

C2_Witness ==
    /\ pc = "done"
    /\ model_loaded
    /\ model_outcome.kind = "fail"
    /\ model_outcome.at = "scale"
    /\ documents_features = <<SignedReportFeatures>>
    /\ legit_percentage = Pct(73)

\* The per-document delta as C3 states it.
Delta(d) ==
    (IF d.has_signature THEN 5 ELSE 0) + (IF d.has_stamp THEN 5 ELSE 0)
    + (IF d.has_doctor_name THEN 5 ELSE 0) + (IF d.has_hospital_name THEN 5 ELSE 0)
    + (IF d.has_policy_number THEN 3 ELSE 0) + (IF d.has_claim_number THEN 3 ELSE 0)
    + (IF d.has_medical_terms > 3 THEN 5 ELSE 0)
    + (IF d.text_length > 500 THEN 3 ELSE 0)
    - (IF d.text_length < 50 THEN 10 ELSE 0)
    - (IF ~d.has_dates THEN 5 ELSE 0)
    - (IF d.document_type = "invoice" /\ ~d.has_amounts THEN 10 ELSE 0)
    - (IF d.date_consistency < 50 THEN 10 ELSE 0)
    - (IF d.amount_consistency < 50 THEN 10 ELSE 0)

RECURSIVE SumOfDeltas(_)
SumOfDeltas(docs) ==
    IF docs = <<>> THEN 0 ELSE Delta(Head(docs)) + SumOfDeltas(Tail(docs))

\* C3: with no model loaded, the score of a non-empty list is
\* clamp(50 + sum of the documents' deltas, 0, 100): the deltas accumulate
\* over the documents and the clamp is applied once, to the final total.
C3_RuleBasedFormula ==
    (Scored /\ ~model_loaded /\ documents_features # <<>>) =>
        LET total == 50 + SumOfDeltas(documents_features)
        IN  legit_percentage =
                Pct(IF total < 0 THEN 0 ELSE IF total > 100 THEN 100 ELSE total)

\* The positive deltas alone bring the total to 104, the missing date brings
\* it back to 99: a clamp between the two loops would give 95.
C3_Witness ==
    /\ pc = "done"
    /\ ~model_loaded
    /\ documents_features = <<RichFeatures, UndatedPrescriptionFeatures>>
    /\ legit_percentage = Pct(99)

\* C4: an empty feature list gives exactly 50.0 from the empty-list return,
\* with neither the model strategy nor the rule-based strategy run, and the
\* risk level is medium.
C4_EmptyListNeutral ==
    (pc # "start" /\ documents_features = <<>>) =>
        /\ legit_percentage = Pct(50)
        /\ strategy = "none"
        /\ model_outcome = NotCalled
        /\ risk_level = "medium"

\* A model is loaded and both documents of the claim were skipped.
C4_Witness ==
    /\ pc = "done"
    /\ model_loaded
    /\ Len(documents) = 2
    /\ documents_features = <<>>
    /\ response.risk_level = "medium"

\* C5: the risk level depends on legit_percentage alone: low exactly from
\* 70 up, high exactly below 40, medium between; 70 is low, 69.9 medium,
\* 40 medium and 39.9 high.
C5_RiskThresholds ==
    Scored =>
        /\ risk_level \in {"low", "medium", "high"}
        /\ risk_level = "low" <=> legit_percentage >= 700
        /\ risk_level = "high" <=> legit_percentage <= 399
        /\ legit_percentage = 700 => risk_level = "low"
        /\ legit_percentage = 699 => risk_level = "medium"
        /\ legit_percentage = 400 => risk_level = "medium"
        /\ legit_percentage = 399 => risk_level = "high"

C5_Witness ==
    /\ pc = "done"
    /\ legit_percentage = 699
    /\ response.risk_level = "medium"

\* The risk level derived from the fraud score with the thresholds the
\* specification calls equivalent: below 30 low, 30 to 60 medium, above 60 high.
RiskFromFraudScore(fs) ==
    IF fs < Pct(30) THEN "low"
    ELSE IF fs <= Pct(60) THEN "medium"
    ELSE "high"

\* C6 as stated: for every legit_percentage the fraud-score thresholds give
\* the risk level that the legit-percentage thresholds give.
C6_FraudThresholdsEquivalent ==
    Scored => RiskFromFraudScore(fraud_score) = risk_level

\* C6 as amended: the two derivations agree for every legit_percentage other
\* than 70, where the fraud score is 30 and its thresholds say medium while
\* the published level is low.
C6_EquivalentExceptAtSeventy ==
    Scored =>
        /\ legit_percentage # Pct(70) => RiskFromFraudScore(fraud_score) = risk_level
        /\ legit_percentage = Pct(70) =>
             /\ risk_level = "low"
             /\ RiskFromFraudScore(fraud_score) = "medium"

\* The other boundary, where both derivations say medium.
C6_Witness ==
    /\ pc = "done"
    /\ legit_percentage = Pct(40)
    /\ fraud_score = Pct(60)
    /\ response.risk_level = "medium"
    /\ RiskFromFraudScore(response.fraud_score) = "medium"

\* C7: every result analyze_fraud_risk returns has at least one indicator.
C7_IndicatorsNonEmpty ==
    pc = "done" => Len(response.indicators) >= 1

\* C8: whatever the narrative service does, analyze_fraud_risk returns, and
\* the legit_percentage, fraud_score and risk_level it publishes are the ones
\* the documents and the scorer determine.
C8_NarrativeIndependent ==
    /\ pc # "raised"
    /\ pc = "done" =>
         /\ analysis.legit_percentage = ScorerValue
         /\ response.fraud_score = Pct(100) - ScorerValue
         /\ response.risk_level = RiskLevel(ScorerValue)

\* C9: the call to the narrative service is bounded in time, so every
\* analysis eventually returns (or fails), even if the service never answers.
C9_AnalysisReturns == <>(pc \in {"done", "raised"})

\* C10: when the narrative generator is enabled and its call fails, the
\* indicators and recommendations returned are those the local fallback
\* computes from the document features and the legit percentage.
C10_FailureUsesLocalHeuristics ==
    (pc = "done" /\ enabled /\ reply.kind # "json") =>
        /\ response.indicators =
             extract_indicators_from_features(documents_features, legit_percentage)
        /\ response.recommendations =
             generate_recommendations(legit_percentage, documents_features)

\* C11: once an analysis has completed, the claim row stores the fraud_score
\* and risk_level of the result handed to the caller, and the caller receives
\* the full result, that is every field of the analysis that was computed.
C11_StoredEqualsReturned ==
    pc = "done" =>
        /\ claim.fraud_score = response.fraud_score
        /\ claim.fraud_risk_level = response.risk_level
        /\ DOMAIN analysis \subseteq DOMAIN response

\* The document's stored file exists and its processing does not raise.
ProcessedSuccessfully(d) == d.file = "ok"

\* Some document of the claim is skipped.
SomeDocumentSkipped == \E i \in 1..Len(documents) : ~ProcessedSuccessfully(documents[i])

\* C12: a document whose file is missing or whose processing raises is
\* skipped; the scorer receives exactly the feature records of the documents
\* processed successfully, in the documents' order, and analyze_fraud_risk
\* still returns a result.
C12_PartialFailureNonFatal ==
    SomeDocumentSkipped =>
        /\ pc # "start" =>
             LET ok == SelectSeq(documents, ProcessedSuccessfully)
             IN  documents_features = [i \in 1..Len(ok) |-> ok[i].features]
        /\ pc # "raised"

\* The text the declared media type calls for: PDF extraction for a PDF, OCR
\* for an image, the paragraphs joined by newlines for a Word document, the
\* empty string for anything else.
TextByMediaType(doc) ==
    IF doc.mime_type = PdfMime THEN extract_text_from_pdf(doc.content).text
    ELSE IF StartsWithImage(doc.mime_type)
         THEN extract_text_from_image(doc.content).text
    ELSE IF doc.mime_type = DocxMime /\ ~doc.content.paragraphs.raises
         THEN doc.content.paragraphs.text
    ELSE EmptyText

\* C13: for every document the orchestrator processes, the text extracted is
\* the one the document's declared media type selects.
C13_ExtractionByMediaType ==
    (result.returned /\ call.fn = "process_document") =>
        result.text = TextByMediaType(call.doc)

\* No library can read the file: a corrupt PDF (pdfplumber fails before it
\* has read any text and PyPDF2 fails), an unreadable image, or a format with
\* no extractor.
NothingExtractable(doc) ==
    /\ doc.content.pdfplumber.raises
    /\ doc.content.pdfplumber.text = EmptyText
    /\ doc.content.pypdf2.raises
    /\ doc.content.ocr.raises

\* C14: text extraction never surfaces an exception; for a corrupt PDF, an
\* unreadable image or an unsupported format the text is the empty string,
\* and the features are then those of the empty text: text_length 0 and
\* word_count 0.
C14_ExtractionNeverRaises ==
    result.returned =>
        /\ ~result.raised
        /\ NothingExtractable(call.doc) => result.text = EmptyText
        /\ result.text = EmptyText =>
             /\ result.features.text_length = 0
             /\ result.features.word_count = 0

\* A corrupt file stored as a PDF went through both PDF strategies.
C14_Witness ==
    /\ result.returned
    /\ call.fn = "process_document"
    /\ call.doc.content = CorruptFile
    /\ call.doc.extension = ".pdf"
    /\ ~result.raised
    /\ result.text = EmptyText
    /\ result.features.text_length = 0

SumFields == {"text_length", "word_count", "has_medical_terms",
              "has_prescription_terms", "has_invoice_terms"}

OrFields == {"has_dates", "has_amounts", "has_phone_numbers", "has_email",
             "has_signature", "has_stamp", "has_doctor_name",
             "has_hospital_name", "has_policy_number", "has_claim_number"}

\* The sum of one field over the documents of a list.
RECURSIVE SumField(_, _)
SumField(docs, field) ==
    IF docs = <<>> THEN 0
    ELSE SumField(SubSeq(docs, 1, Len(docs) - 1), field) + docs[Len(docs)][field]

\* The lists that hold the documents of docs in another order.
Reorderings(docs) ==
    LET n == Len(docs)
        perms == {p \in [1..n -> 1..n] : \A i, j \in 1..n : p[i] = p[j] => i = j}
    IN  {[i \in 1..n |-> docs[p[i]]] : p \in perms}

\* C15: the aggregate's text_length, word_count and three term counts are the
\* sums over the documents, each boolean field is true exactly when some
\* document has it true, and every permutation of the list gives the same
\* values for these fields.
C15_SumAndOrOrderIndependent ==
    result.returned =>
        /\ \A f \in SumFields : result.aggregated[f] = SumField(call.docs, f)
        /\ \A f \in OrFields :
             result.aggregated[f] <=> \E i \in 1..Len(call.docs) : call.docs[i][f]
        /\ \A other \in Reorderings(call.docs) :
             \A f \in SumFields \cup OrFields :
                aggregate_features(other)[f] = result.aggregated[f]

\* D1 signed, D2 unsigned, and the two in the other order.
C15_Witness ==
    /\ result.returned
    /\ call.docs = <<SignedReportFeatures, PlainFeatures>>
    /\ result.aggregated.has_signature
    /\ aggregate_features(<<PlainFeatures, SignedReportFeatures>>).has_signature
    /\ result.aggregated.text_length = 720

\* Equality of two fractions.
SameFraction(a, b) == a.num * b.den = b.num * a.den

\* The running pairwise average of a list of values, from the last value
\* back: 1.0 for the empty list, otherwise the average of the last value and
\* the running average of the values before it.
RECURSIVE RunningAverage(_)
RunningAverage(values) ==
    IF values = <<>> THEN [num |-> 100, den |-> 1]
    ELSE LET before == RunningAverage(SubSeq(values, 1, Len(values) - 1))
         IN  [num |-> before.num + values[Len(values)] * before.den,
              den |-> 2 * before.den]

\* The arithmetic mean of a non-empty list of values.
Mean(docs, field) == [num |-> SumField(docs, field), den |-> Len(docs)]

\* The list with the documents at positions i and i+1 exchanged.
Exchanged(docs, i) ==
    [k \in 1..Len(docs) |-> IF k = i THEN docs[i + 1]
                            ELSE IF k = i + 1 THEN docs[i]
                            ELSE docs[k]]

\* C16: date_consistency and amount_consistency of the aggregate are the
\* running pairwise average over the documents in list order, starting from
\* 1.0.  The result depends on the order (exchanging two neighbours with
\* different values changes it) and is not the mean (documents that all have
\* the same value below 1.0 do not aggregate to that value).
C16_RunningPairwiseAverage ==
    result.returned =>
        \A f \in {"date_consistency", "amount_consistency"} :
            /\ SameFraction(result.aggregated[f],
                            RunningAverage([i \in 1..Len(call.docs) |-> call.docs[i][f]]))
            /\ \A i \in 1..(Len(call.docs) - 1) :
                 call.docs[i][f] # call.docs[i + 1][f] =>
                     ~SameFraction(aggregate_features(Exchanged(call.docs, i))[f],
                                   result.aggregated[f])
            /\ (/\ call.docs # <<>>
                /\ call.docs[1][f] < 100
                /\ \A i \in 1..Len(call.docs) : call.docs[i][f] = call.docs[1][f])
               => ~SameFraction(result.aggregated[f], Mean(call.docs, f))

\* Consistencies 0.8 then 1.0 aggregate to 0.95; in the other order they
\* aggregate to 0.9, which is also their mean.
C16_Witness ==
    /\ result.returned
    /\ call.docs = <<RichFeatures, PlainFeatures>>
    /\ SameFraction(result.aggregated.date_consistency, [num |-> 95, den |-> 1])
    /\ SameFraction(aggregate_features(<<PlainFeatures, RichFeatures>>).date_consistency,
                    [num |-> 90, den |-> 1])
    /\ SameFraction(Mean(call.docs, "date_consistency"), [num |-> 90, den |-> 1])

\* C18: aggregating an empty list does not raise and returns the neutral
\* accumulator: every count 0, every boolean false, both consistencies 1.0,
\* document_type "mixed"; and the aggregate's document_type is "mixed" for
\* every list.
C18_EmptyAggregateNeutral ==
    result.returned =>
        /\ ~result.raised
        /\ result.aggregated.document_type = "mixed"
        /\ call.docs = <<>> =>
             /\ \A f \in SumFields : result.aggregated[f] = 0
             /\ \A f \in OrFields : result.aggregated[f] = FALSE
             /\ SameFraction(result.aggregated.date_consistency, [num |-> 100, den |-> 1])
             /\ SameFraction(result.aggregated.amount_consistency, [num |-> 100, den |-> 1])

\* The empty list was aggregated.
C18_Witness ==
    /\ result.returned
    /\ call.docs = <<>>
    /\ result.aggregated.document_type = "mixed"
    /\ result.aggregated.text_length = 0
    /\ ~result.aggregated.has_signature

\* C17: the scorer reaches _aggregate_features only when a model is loaded
\* and the list has at least one record; for an empty list it returns 50.0
\* without aggregating.
C17_NoEmptyAggregation ==
    /\ aggregation.invoked =>
         /\ model_loaded
         /\ Len(aggregation.docs) >= 1
         /\ aggregation.docs = documents_features
    /\ (pc # "start" /\ documents_features = <<>>) =>
         /\ ~aggregation.invoked
         /\ legit_percentage = Pct(50)

\* A model is loaded and every document of the claim was skipped: the scorer
\* returned 50.0 and the aggregator was not called.
C17_Witness ==
    /\ pc = "done"
    /\ model_loaded
    /\ documents # <<>>
    /\ documents_features = <<>>
    /\ ~aggregation.invoked
    /\ legit_percentage = Pct(50)

\* The scenario of C19: one medical_report with signature, stamp, doctor
\* name, hospital name and more than 500 characters, and no negative signal.
SignedReportScenario ==
    /\ result.returned
    /\ Len(call.docs) = 1
    /\ LET d == call.docs[1]
       IN  /\ d.document_type = "medical_report"
           /\ d.has_signature /\ d.has_stamp /\ d.has_doctor_name /\ d.has_hospital_name
           /\ d.text_length > 500
           /\ d.has_dates
           /\ d.date_consistency >= 50 /\ d.amount_consistency >= 50

\* C19 as stated: in the scenario the rule-based score is 78 and the risk
\* level is low.
C19_ScenarioScoreSeventyEight ==
    SignedReportScenario =>
        /\ result.legit_percentage = Pct(78)
        /\ result.risk_level = "low"

\* C19 as amended: in the scenario the rule-based score is 50+5+5+5+5+3 = 73,
\* plus 5 when the document has more than three medical terms, plus 3 for a
\* policy number and 3 for a claim number; it is 78 exactly when the medical
\* terms are the only further signal; the risk level is low in every case.
C19_ScenarioScoreSeventyThree ==
    SignedReportScenario =>
        LET d == call.docs[1]
            further == (IF d.has_medical_terms > 3 THEN 5 ELSE 0)
                       + (IF d.has_policy_number THEN 3 ELSE 0)
                       + (IF d.has_claim_number THEN 3 ELSE 0)
        IN  /\ result.legit_percentage = Pct(73 + further)
            /\ (result.legit_percentage = Pct(78)) <=>
                 (d.has_medical_terms > 3 /\ ~d.has_policy_number /\ ~d.has_claim_number)
            /\ result.risk_level = "low"

\* The scenario with no further signal scores 73.
C19_Witness ==
    /\ SignedReportScenario
    /\ call.docs = <<SignedReportFeatures>>
    /\ result.legit_percentage = Pct(73)
    /\ result.risk_level = "low"

\* The elements of a list.
Elements(list) == {list[i] : i \in 1..Len(list)}

\* C20: for a claim with no document and no question the analysis has
\* legit_percentage 50.0 and risk level medium, its indicators contain "No
\* documents uploaded for verification", and its recommendations contain the
\* two of the middle tier and not the first of the tier below 40.
C20_NoDocumentsNoQuestions ==
    (pc = "done" /\ documents = <<>> /\ questions = 0) =>
        /\ analysis.legit_percentage = Pct(50)
        /\ response.risk_level = "medium"
        /\ "No documents uploaded for verification" \in Elements(response.indicators)
        /\ "Review documents carefully" \in Elements(response.recommendations)
        /\ "Cross-check policy coverage" \in Elements(response.recommendations)
        /\ "Conduct detailed manual review" \notin Elements(response.recommendations)

\* C21: the confidence of every result analyze_fraud_risk returns lies in
\* [0,1], whether it is the local 0.75 or comes from the narrative
\* generator's reply.
C21_ConfidenceInUnitInterval ==
    pc = "done" => (response.confidence >= 0 /\ response.confidence <= 100)

\* The three tiers of recommendations.
ManualReviewTier ==
    <<"Conduct detailed manual review", "Request additional documentation",
      "Verify with medical providers">>

CarefulReviewTier == <<"Review documents carefully", "Cross-check policy coverage">>

StandardReviewTier == <<"Standard review process", "Verify policy coverage">>

\* list starts with prefix
StartsWith(list, prefix) ==
    /\ Len(list) >= Len(prefix)
    /\ SubSeq(list, 1, Len(prefix)) = prefix

\* C22: the local recommendations are never empty and start with exactly one
\* tier, chosen by legit_percentage (below 40, from 40 to below 70, 70 and
\* above); the tier is followed by "Request medical report for verification"
\* exactly when no document is a medical_report.
C22_RecommendationsTiered ==
    result.returned =>
        LET recs == result.recommendations
            legit == call.legit_percentage
            tier == IF legit < Pct(40) THEN ManualReviewTier
                    ELSE IF legit < Pct(70) THEN CarefulReviewTier
                    ELSE StandardReviewTier
            no_report == \A i \in 1..Len(call.docs) :
                            call.docs[i].document_type # "medical_report"
        IN  /\ recs # <<>>
            /\ StartsWith(recs, tier)
            /\ \A other \in {ManualReviewTier, CarefulReviewTier, StandardReviewTier} \ {tier} :
                   Elements(other) \cap Elements(recs) = {}
            /\ no_report <=>
                 (/\ Len(recs) > Len(tier)
                  /\ recs[Len(tier) + 1] = "Request medical report for verification")

\* At exactly 40 the middle tier is emitted, and a claim without a medical
\* report gets the request for one.
C22_Witness ==
    /\ result.returned
    /\ call.fn = "generate_recommendations"
    /\ call.legit_percentage = Pct(40)
    /\ Len(call.docs) = 1
    /\ call.docs[1].document_type = "prescription"
    /\ result.recommendations =
         CarefulReviewTier \o <<"Request medical report for verification">>

\* C27: when every document type is one of medical_report, prescription,
\* invoice, lab_result and other, _generate_recommendations never emits
\* "Request itemized invoice".
C27_NoItemizedInvoiceRequest ==
    (/\ result.returned
     /\ \A i \in 1..Len(call.docs) : call.docs[i].document_type \in InferredDocumentTypes)
    => "Request itemized invoice" \notin Elements(result.recommendations)

\* An invoice and a prescription: the guard's second half holds, its first
\* half does not, and no itemized invoice is requested.
C27_Witness ==
    /\ result.returned
    /\ call.fn = "generate_recommendations"
    /\ Len(call.docs) = 2
    /\ call.docs[1].document_type = "invoice"
    /\ call.docs[2].document_type = "prescription"
    /\ "Request itemized invoice" \notin Elements(result.recommendations)
    /\ "Request medical report for verification" \in Elements(result.recommendations)

\* C23: a feature record's date_consistency (amount_consistency) is 1.0 when
\* the text has fewer than two date-like (amount-like) matches and 0.8
\* otherwise; both lie in [0,1], and the rule-based penalties for a
\* consistency below 0.5 never apply to a record the extractor produced.
C23_ConsistencyPlaceholder ==
    result.returned =>
        LET f == result.features
        IN  /\ f.date_consistency = (IF result.text.dates < 2 THEN 100 ELSE 80)
            /\ f.amount_consistency = (IF result.text.amounts < 2 THEN 100 ELSE 80)
            /\ f.date_consistency \in 0..100
            /\ f.amount_consistency \in 0..100
            /\ NegativeIndicators(Pct(50), f) =
                 NegativeIndicators(Pct(50), [f EXCEPT !.date_consistency = 100,
                                                       !.amount_consistency = 100])

\* A text with two dates and two amounts was extracted.
C23_Witness ==
    /\ result.returned
    /\ call.fn = "extract_text"
    /\ result.text.dates = 2
    /\ result.text.amounts = 2
    /\ result.features.date_consistency = 80
    /\ result.features.amount_consistency = 80

\* C24: analyses of different claims do not interfere.  The analysis of the
\* second claim, whose narrative requests are always answered, returns (or
\* fails) as it does when run alone, whatever the analysis of the first
\* claim is doing.
C24_ConcurrentAnalysesIndependent ==
    <>(coroutines["second"].pc \in {"done", "raised"})

\* C25: the rule-based score does not depend on the order of the documents:
\* every permutation of a non-empty list of feature records gets the score
\* the list gets.
C25_RuleBasedOrderIndependent ==
    (pc # "start" /\ strategy \in {"rules", "fallback"}) =>
        /\ documents_features # <<>>
        /\ \A other \in Reorderings(documents_features) :
               rule_based_scoring(other) = legit_percentage

\* Two documents whose positive signals total 104 before the penalties of the
\* second bring the score to 99, in this order and in the other.
C25_Witness ==
    /\ pc = "done"
    /\ strategy = "rules"
    /\ documents_features = <<RichFeatures, UndatedPrescriptionFeatures>>
    /\ legit_percentage = Pct(99)
    /\ rule_based_scoring(<<UndatedPrescriptionFeatures, RichFeatures>>) = Pct(99)

\* The list with every document's type replaced by t.
Retyped(docs, t) == [i \in 1..Len(docs) |-> [docs[i] EXCEPT !.document_type = t]]

\* C26: in model mode the feature vector has 18 components, the document-type
\* ordinal followed by the 17 named fields in their fixed order with booleans
\* as 0.0 or 1.0; the ordinal is 0.5 for every claim, so the documents' types
\* do not influence what the model is given.
C26_VectorIgnoresDocumentTypes ==
    result.returned =>
        LET v == result.vector
        IN  /\ Len(v) = 18
            /\ SameFraction(v[1], [num |-> 50, den |-> 1])
            /\ \A k \in 1..17 :
                 LET name == FeatureNames[k]
                     value == result.aggregated[name]
                 IN  IF name \in OrFields
                     THEN v[k + 1] = [num |-> IF value THEN 100 ELSE 0, den |-> 1]
                     ELSE IF name \in SumFields
                     THEN SameFraction(v[k + 1], [num |-> 100 * value, den |-> 1])
                     ELSE SameFraction(v[k + 1], value)
            /\ \A t \in InferredDocumentTypes :
                 extract_features_vector(aggregate_features(Retyped(call.docs, t))) = v

\* A medical report and an invoice were aggregated and encoded: the ordinal
\* is 0.5, not the 1.0 or the 0.6 of their types.
C26_Witness ==
    /\ result.returned
    /\ call.fn = "aggregate_features"
    /\ call.docs = <<SignedReportFeatures, SuspectInvoiceFeatures>>
    /\ Len(result.vector) = 18
    /\ result.vector[1] = [num |-> 50, den |-> 1]
    /\ result.vector[13] = [num |-> 100, den |-> 1]

\* The upload that the step just taken handled is one the service must
\* reject: extension or declared media type outside the allowed sets, more
\* than 10 MB, or no content at all.
MustBeRejected(file) ==
    \/ Lower(file.filename.ext) \notin ALLOWED_EXTENSIONS
    \/ file.content_type # NoContentType /\ file.content_type \notin ALLOWED_MIME_TYPES
    \/ file.size > Megabytes(10)
    \/ file.size = 0

\* The step is the return of an upload_document call.
UploadStep == call'.fn = "upload_document" /\ result'.returned

\* The step takes an upload_document call to its wait for the file.
UploadWaits == call'.fn = "upload_document" /\ ~result'.returned

\* C28: an upload with an extension or a declared media type outside the
\* allowed sets, with more than 10 MB or with no content ends in an HTTP 400
\* error and leaves the documents collection as it was; any other upload
\* returns and appends exactly one record, with status "active" and the
\* claim id of the call, leaving the earlier records as they were.
C28_RejectedUploadStoresNothing ==
    [][/\ UploadWaits => db'.documents = db.documents
       /\ UploadStep =>
         IF MustBeRejected(call'.file)
         THEN /\ result'.raised
              /\ result'.status_code = 400
              /\ db'.documents = db.documents
         ELSE /\ ~result'.raised
              /\ Len(db'.documents) = Len(db.documents) + 1
              /\ SubSeq(db'.documents, 1, Len(db.documents)) = db.documents
              /\ db'.documents[Len(db'.documents)].status = "active"
              /\ db'.documents[Len(db'.documents)].claim_id = call'.claim_id]_vars

\* An upload of more than 10 MB waited for its file and was then rejected:
\* the collection holds the record of an accepted upload alone.
C28_Witness ==
    /\ call.fn = "upload_document"
    /\ call.file = OversizedUpload
    /\ result.returned
    /\ result.raised
    /\ result.status_code = 400
    /\ Len(db.documents) = 1
    /\ db.documents[1].status = "active"
    /\ db.documents[1].filename.ext = ".PDF"

DeletedIds(collection) ==
    {collection[i].id : i \in {j \in 1..Len(collection) : collection[j].status = "deleted"}}

\* C29: once delete_document has succeeded on a document, every later step
\* keeps its record in the collection with status "deleted", no later
\* get_documents_by_claim or search_similar_documents returns it, and
\* get_document_by_id still does.
C29_DeletedStaysHidden ==
    [][/\ \A i \in 1..Len(db.documents) :
            db.documents[i].status = "deleted" =>
              /\ i <= Len(db'.documents)
              /\ db'.documents[i] = db.documents[i]
       /\ (call'.fn = "delete_document" /\ result'.value) =>
            /\ Len(db'.documents) = Len(db.documents)
            /\ db'.documents[call'.document_id].status = "deleted"
       /\ call'.fn = "get_documents_by_claim" =>
            {result'.value[i].id : i \in 1..Len(result'.value)}
               \cap DeletedIds(db'.documents) = {}
       /\ call'.fn = "search_similar_documents" =>
            {r.id : r \in result'.value} \cap DeletedIds(db'.documents) = {}
       /\ (call'.fn = "get_document_by_id"
              /\ call'.document_id \in DeletedIds(db'.documents)) =>
            /\ result'.value.found
            /\ result'.value.value.id = call'.document_id]_vars

\* A search over all claims, made after one of two documents was deleted,
\* returns the other document alone.
C29_Witness ==
    /\ call.fn = "search_similar_documents"
    /\ call.claim_id = AnyClaim
    /\ Len(db.documents) = 2
    /\ db.documents[1].status = "deleted"
    /\ db.documents[2].status = "active"
    /\ {r.id : r \in result.value} = {2}

\* The collection holds a policy of that number which has no expiry date or
\* whose expiry date is not before `at`.
ValidPolicyAt(policies, policy_number, at) ==
    \E i \in 1..Len(policies) :
      /\ policies[i].policy_number = policy_number
      /\ "expiry_date" \in DOMAIN policies[i] => policies[i].expiry_date >= at

\* The step is one of create_claim: it inserts a claim, or it leaves the
\* clock alone.
CreateStep == call'.fn = "create_claim" /\ (db' # db \/ now' = now)

\* C30: create_claim for a policy number that the policies collection lacks
\* or whose policy has expired when the call looks it up ends in a 404 error
\* and leaves the claims collection as it was; any other create_claim appends
\* exactly one claim, with status "pending", no fraud score, no risk level, no
\* documents, a questions count of 0 and time stamps read during the call;
\* and every claim of the collection names a policy of the collection.
C30_ClaimsOnlyForValidPolicies ==
    [][/\ CreateStep =>
            IF ~ValidPolicyAt(db.policies, call'.policy_number, now)
            THEN /\ result'.raised
                 /\ result'.status_code = 404
                 /\ db'.claims = db.claims
            ELSE /\ Len(db'.claims) = Len(db.claims) + 1
                 /\ LET new == db'.claims[Len(db'.claims)]
                    IN  /\ now <= new.created_at
                        /\ new.created_at <= new.updated_at
                        /\ new.updated_at <= now'
                        /\ db'.claims =
                             Append(db.claims,
                                    [id |-> Len(db.claims) + 1,
                                     policy_number |-> call'.policy_number,
                                     status |-> "pending",
                                     fraud_score |-> NoScore,
                                     fraud_risk_level |-> "unset",
                                     created_at |-> new.created_at,
                                     updated_at |-> new.updated_at,
                                     documents |-> <<>>,
                                     questions_count |-> 0])
       /\ \A i \in 1..Len(db'.claims) :
            \E j \in 1..Len(db'.policies) :
              db'.policies[j].policy_number = db'.claims[i].policy_number]_vars

\* A claim was created on a policy while it was valid, and a later request
\* on the same policy, by then expired, was refused.
C30_Witness ==
    /\ call.fn = "create_claim"
    /\ call.policy_number = "POL-2024-002"
    /\ result.raised
    /\ result.status_code = 404
    /\ Len(db.claims) = 1
    /\ db.claims[1].policy_number = "POL-2024-002"
    /\ db.claims[1].status = "pending"
    /\ db.claims[1].created_at < now

====
